---- MODULE Spec2Model ----
(***************************************************************************)
(* Feed-to-publish pipeline of the RSS bot: BotController (the cycle loop, *)
(* the per-post pipeline), StateManager (the durable store of sent posts), *)
(* AsyncYandexGPT (the transform backend) and the administrative handlers  *)
(* of AsyncTelegramBot that touch the pipeline.                            *)
(*                                                                         *)
(* Text is a sequence of tokens (a token stands for one character, or for  *)
(* one word of a denylisted phrase); len() is the length of the sequence.  *)
(* A digest is modelled by its algorithm and its preimage: md5 and sha256  *)
(* are taken to be collision free, and digests of different algorithms     *)
(* have different lengths (32 and 64 hex digits).                          *)
(***************************************************************************)
EXTENDS Integers, Sequences, FiniteSets, TLC

\* ------------------------------------------------------------------ bounds
MaxBatch == 2
MaxErrors == 1

\* ------------------------------------------------------- program constants
MinTitleLen == 5
MinDescLen == 20
MAX_TITLE_LENGTH == 120
MAX_DESC_LENGTH == 300
Md5HexLen == 32
Sha256HexLen == 64

\* -------------------------------------------------------------------- text
Range(s) == {s[i] : i \in 1..Len(s)}

\* text[:n]
Prefix(s, n) == IF n >= Len(s) THEN s ELSE SubSeq(s, 1, n)

\* sub in text (Python's substring test)
Contains(sub, s) ==
    \E i \in 0..(Len(s) - Len(sub)) :
        \A j \in 1..Len(sub) : s[i + j] = sub[j]

\* str.rfind(' '): 0-based index of the last space, -1 when there is none
RFindSpace(s) ==
    IF \E i \in 1..Len(s) : s[i] = " "
    THEN (CHOOSE i \in 1..Len(s) :
            s[i] = " " /\ \A j \in (i + 1)..Len(s) : s[j] # " ") - 1
    ELSE -1

\* text[:k] for an index k that may be negative (Python slicing)
SliceTo(s, k) ==
    IF k >= 0 THEN Prefix(s, k)
    ELSE IF Len(s) + k <= 0 THEN << >> ELSE SubSeq(s, 1, Len(s) + k)

\* BotController._truncate_text
TruncateText(text, max_length) ==
    IF Len(text) <= max_length THEN text
    ELSE LET truncated == Prefix(text, max_length)
             last_space == RFindSpace(truncated)
         IN  (IF last_space # 0 THEN SliceTo(truncated, last_space) ELSE truncated)
                \o <<".", ".", ".">>

\* str.lower() on the tokens that hold an upper-case letter
UpperTokens == <<"A", "B", "N", "X", "Y", "Posmotrite,">>
LowerTokens == <<"a", "b", "n", "x", "y", "posmotrite,">>
Lower(s) ==
    [i \in 1..Len(s) |->
        IF \E n \in 1..Len(UpperTokens) : UpperTokens[n] = s[i]
        THEN LowerTokens[CHOOSE n \in 1..Len(UpperTokens) : UpperTokens[n] = s[i]]
        ELSE s[i]]

\* the list skip_phrases of _contains_low_quality_phrases; the strings from
\* "в поиске найдены" on are adjacent literals without commas, so Python
\* concatenates them into a single phrase
skip_phrases ==
    << <<"v", " ", "internete", " ", "est", " ", "mnogo", " ", "saytov">>,
       <<"posmotrite,", " ", "chto", " ", "nashlos", " ", "v", " ", "poiske">>,
       <<"dopolnitelnye", " ", "materialy:">>,
       <<"smotrite", " ", "takzhe:">>,
       <<"chitayte", " ", "dalee">>,
       <<"chitayte", " ", "takzhe">>,
       <<"rekomenduem", " ", "prochitat">>,
       <<"podrobnee", " ", "na", " ", "sayte">>,
       <<"drugie", " ", "istochniki:">>,
       <<"bolshe", " ", "informatsii", " ", "mozhno", " ", "nayti">>,
       <<"v", " ", "poiske", " ", "naydeny", "skidka", "skidki", "kupon",
         "kupony", "aktsiya", "aktsii">> >>

\* re.search(r'\[.*\]\(https?://[^\)]+\)', text); "http://" is one token
HasMarkdownLink(s) ==
    \E i \in 1..Len(s) :
        /\ s[i] = "["
        /\ \E j \in (i + 1)..(Len(s) - 4) :
            /\ s[j] = "]"
            /\ s[j + 1] = "("
            /\ s[j + 2] = "http://"
            /\ \E k \in (j + 4)..Len(s) :
                /\ s[k] = ")"
                /\ \A m \in (j + 3)..(k - 1) : s[m] # ")"

\* BotController._contains_low_quality_phrases
ContainsLowQualityPhrases(content) ==
    LET full_text == Lower(content.title \o <<" ">> \o content.description)
    IN  \/ \E n \in 1..Len(skip_phrases) : Contains(skip_phrases[n], full_text)
        \/ HasMarkdownLink(full_text)

\* ----------------------------------------------------------------- digests
\* hashlib.md5(data).hexdigest() / hashlib.sha256(data).hexdigest()
Md5(data) == [alg |-> "md5", data |-> data]
Sha256(data) == [alg |-> "sha256", data |-> data]

\* number of hex digits of a digest
HexLen(h) == IF h.alg = "md5" THEN Md5HexLen ELSE Sha256HexLen

\* ------------------------------------------------------------------- posts
\* What the feeds can deliver.  p1 is an ordinary post; p2 is the same
\* article re-syndicated under another link; p3 has a title that is too
\* short.
Posts == {"p1", "p2", "p3"}

LongText(a, b) ==
    [i \in 1..22 |-> IF i % 6 = 0 THEN " " ELSE IF i % 2 = 0 THEN a ELSE b]

Entry(p) ==
    CASE p = "p1" -> [link |-> <<"h", "1">>, title |-> <<"N", "e", "w", "s", " ", "A">>,
                      description |-> LongText("a", "b")]
      [] p = "p2" -> [link |-> <<"h", "2">>, title |-> <<"N", "e", "w", "s", " ", "A">>,
                      description |-> LongText("a", "b")]
      [] p = "p3" -> [link |-> <<"h", "3">>, title |-> <<"N", "o">>,
                      description |-> LongText("a", "b")]

\* the batches one fetch phase can return
Batches == UNION {[1..n -> Posts] : n \in 0..MaxBatch}

\* BotController._quick_normalize (feed entries are dicts with a link)
QuickNormalize(p) == [link |-> Entry(p).link, title |-> Entry(p).title]

\* BotController._normalize_post
NormalizePost(p) == Entry(p)

\* an identity derived from the link alone
LinkOnlyId(post) == Md5(post.link)

\* BotController._generate_post_id
GeneratePostId(post) == Md5(post.link \o post.title)

\* the identity the pre-filter checks, and the one stored with the post
FilterId(p) == GeneratePostId(QuickNormalize(p))
PostId(p) == GeneratePostId(NormalizePost(p))

\* StateManager._generate_content_hash
StateContentHash(post) == Sha256(post.title \o post.description)

\* BotController._generate_content_hash
ControllerContentHash(post) == Md5(post.title \o post.description)

\* ------------------------------------------------------- transform backend
None == [some |-> FALSE, title |-> << >>, description |-> << >>]
Some(t, d) == [some |-> TRUE, title |-> t, description |-> d]

\* the rewrites the backend can answer with: a usable one, one that carries
\* a denylisted phrase, one that carries a markdown-wrapped link
Rewrites ==
    { Some(<<"B", "e", "t", "t", "e", "r">>, LongText("x", "y")),
      Some(<<"X">>, <<"Posmotrite,", " ", "chto", " ", "nashlos", " ", "v", " ",
                      "poiske", " ", "p", "o", " ", "t", "e", "m", "e", " ", "Y">>),
      Some(<<"B", "e", "t", "t", "e", "r">>,
           <<"s", "e", "e", " ", "[", "i", "t", "]", "(", "http://", "a", ".", "b", ")">>) }

\* ------------------------------------------------------------------- state
VARIABLES
    is_running,         \* BotController.is_running
    pc,                 \* where the task running _rss_processing_loop stands
    new_posts,          \* the batch of the current cycle
    idx,                \* index in new_posts of the post in processing
    skipped_count,      \* local counter of _process_new_posts
    duplicate_count,    \* local counter of _process_new_posts
    result,             \* what enhance() returned for the current post
    processed_content,  \* the content handed to the publish step
    image_path,         \* the image handed to the publish step
    success,            \* what the publish call returned
    sent_entries,       \* state['sent_entries']: keys in insertion order
    sent_hashes,        \* state['sent_hashes']: keys in insertion order
    state_file,         \* the document in the state file, or NoFile
    stats_errors,       \* stats['errors']
    ENABLE_YAGPT,       \* config.ENABLE_YAGPT and yandex_gpt.active
    IMAGE_SOURCE,       \* config.IMAGE_SOURCE
    loaded,             \* keys of sent_entries in the state file at process start
    cleared,            \* clear-history was run since process start
    RSS_ACTIVE,         \* config.RSS_ACTIVE, one flag per feed of RSS_URLS
    feed_i,             \* _fetch_all_feeds: index of the feed in the loop
    outcomes,           \* _fetch_all_feeds: how each feed of this cycle went
    state,              \* StateManager.state, the document in memory
    file,               \* the canonical state file
    tmp_file,           \* the temporary file of save_state
    backups,            \* the files of the backup directory
    store_pc,           \* where a call of save_state stands
    last,               \* the last call of the StateManager that ended
    clock,              \* datetime.now() as a count of timestamps drawn
    post_a,             \* a post handed to _generate_post_id
    post_b,             \* another post handed to _generate_post_id
    id_a,               \* what _generate_post_id returned for post_a
    id_b,               \* what _generate_post_id returned for post_b
    now,                \* time.time()
    last_post_time,     \* BotController.last_post_time
    wake_at,            \* when the sleep of _enforce_post_delay ends
    call_times,         \* the times of the publish calls of this cycle
    alive,              \* per kind of task, the tasks that run uncancelled
    unwinding,          \* per kind of task, the cancelled tasks not yet ended
    stop_pc,            \* where the call of stop() stands
    rss_pc,             \* where the running _rss_processing_loop stands
    writers,            \* the tasks that have changed the maps of the store
    stopped,            \* how the last call of stop() ended
    RSS_URLS,           \* config.RSS_URLS, the list the handlers change in place
    fetch_pc,           \* where _fetch_all_feeds stands over the live lists
    at_begin,           \* the feeds that were active when the fetch phase began
    fetched,            \* the feeds fetch_feed was called for in this cycle
    feed_errors,        \* rss_parser.feed_errors, failures counted per feed
    image_cfg,          \* IMAGE_SOURCE, IMAGE_FALLBACK, ENABLE_IMAGE_GENERATION
    image_post,         \* which fields the post under resolution has
    image_pc,           \* the await _get_post_image stands at
    tried,              \* the sources _get_post_image has turned to, in order
    resolved,           \* the source of the file _get_post_image returned
    published,          \* what the publish call was given as image
    active,             \* yandex_gpt.active
    error_count,        \* yandex_gpt.error_count
    backend_pc,         \* whether enhance() is awaited
    enhance_log,        \* how the calls of enhance() made so far ended
    attempt,            \* fetch_feed: the attempt in progress, 1..max_retries
    retry_pc,           \* where the call of fetch_feed stands
    attempt_log,        \* how the request attempts of this call ended, in order
    fetch_ret,          \* what the call of fetch_feed returned
    parser_errors,      \* rss_parser.feed_errors of the feed fetched
    cycle_pc,           \* where the task of _rss_processing_loop stands in its cycle
    cancel_requested,   \* rss_task.cancel() was called and not yet delivered
    save_due,           \* time.time() - last_save_time > 300
    cycle_errors,       \* the cycles and saves that failed so far
    last_cycle,         \* how the latest cycle went
    sem_initial,        \* MAX_CONCURRENT_IMAGE_TASKS, what start() creates the semaphore with
    sem_value,          \* the permits left in the semaphore image_semaphore names
    job_pc,             \* where the call of _generate_image_with_semaphore stands
    job_cancelled,      \* the task that runs the job was cancelled, not yet resumed
    jobs_done,          \* the generation jobs that have ended
    trunc_text,         \* the text handed to _truncate_text
    trunc_max,          \* the max_length handed to _truncate_text
    trunc_out,          \* what _truncate_text returned
    trunc_pc,           \* whether _truncate_text has returned for this text
    cand,               \* the post of the batch that _process_new_posts has taken up
    filter_pc,          \* where the loop over the batch stands for this post
    filter_key,         \* post_id of the pre-filter, from the quick-normalized post
    record_key,         \* post_id that add_sent_entry stored for the post
    filter_outcome,     \* how the latest post of the batch went
    session,            \* state of the aiohttp session that self.session names
    executor_down,      \* image_executor.shutdown has been called
    gathering,          \* stop() calls waiting in gather for the cancelled tasks
    closing,            \* _safe_shutdown calls suspended in session.close()
    refresh_pc,         \* where the live _session_refresh_loop stands
    leaked,             \* open sessions that no attribute names any more
    started_ok          \* start() returned true and no stop() was requested since

vars == <<is_running, pc, new_posts, idx, skipped_count,
          duplicate_count, result, processed_content, image_path, success,
          sent_entries, sent_hashes, state_file, stats_errors, ENABLE_YAGPT,
          IMAGE_SOURCE, loaded, cleared, RSS_ACTIVE, feed_i, outcomes,
          state, file, tmp_file, backups, store_pc, last, clock,
          post_a, post_b, id_a, id_b,
          now, last_post_time, wake_at, call_times,
          alive, unwinding, stop_pc, rss_pc, writers, stopped,
          RSS_URLS, fetch_pc, at_begin, fetched, feed_errors,
          image_cfg, image_post, image_pc, tried, resolved, published,
          active, error_count, backend_pc, enhance_log,
          attempt, retry_pc, attempt_log, fetch_ret, parser_errors,
          cycle_pc, cancel_requested, save_due, cycle_errors, last_cycle,
          sem_initial, sem_value, job_pc, job_cancelled, jobs_done,
          trunc_text, trunc_max, trunc_out, trunc_pc,
          cand, filter_pc, filter_key, record_key, filter_outcome,
          session, executor_down, gathering, closing, refresh_pc, leaked, started_ok>>

config == <<ENABLE_YAGPT, IMAGE_SOURCE>>
locals == <<result, processed_content, image_path, success>>
store == <<sent_entries, sent_hashes>>
counters == <<skipped_count, duplicate_count>>
history == <<loaded, cleared>>
pipeline == <<is_running, pc, new_posts, idx, counters, locals, store,
              state_file, stats_errors, config, history>>
feeds == <<RSS_ACTIVE, feed_i, outcomes>>
storage == <<state, file, tmp_file, backups, store_pc, last, clock>>
identities == <<post_a, post_b, id_a, id_b>>
pacing == <<now, last_post_time, wake_at, call_times>>
lifecycle == <<alive, unwinding, stop_pc, rss_pc, writers, stopped>>
live == <<RSS_URLS, fetch_pc, at_begin, fetched, feed_errors>>
images == <<image_cfg, image_post, image_pc, tried, resolved, published>>
backend == <<active, error_count, backend_pc, enhance_log>>
retry == <<attempt, retry_pc, attempt_log, fetch_ret, parser_errors>>
cycles == <<cycle_pc, cancel_requested, save_due, cycle_errors, last_cycle>>
permits == <<sem_initial, sem_value, job_pc, job_cancelled, jobs_done>>
texts == <<trunc_text, trunc_max, trunc_out, trunc_pc>>
prefilter == <<cand, filter_pc, filter_key, record_key, filter_outcome>>
resources == <<session, executor_down, gathering, closing, refresh_pc, leaked, started_ok>>

\* per part of the program, the other parts
others_feeds == <<storage, identities, pacing, lifecycle, live, images, backend,
    retry, cycles, permits, texts, prefilter, resources>>
others_storage == <<feeds, identities, pacing, lifecycle, live, images, backend,
    retry, cycles, permits, texts, prefilter, resources>>
others_identities == <<feeds, storage, pacing, lifecycle, live, images, backend,
    retry, cycles, permits, texts, prefilter, resources>>
others_pacing == <<feeds, storage, identities, lifecycle, live, images, backend,
    retry, cycles, permits, texts, prefilter, resources>>
others_lifecycle == <<feeds, storage, identities, pacing, live, images, backend,
    retry, cycles, permits, texts, prefilter, resources>>
others_live == <<storage, identities, pacing, lifecycle, images, backend,
    retry, cycles, permits, texts, prefilter, resources>>
others_images == <<feeds, storage, identities, pacing, lifecycle, live, backend,
    retry, cycles, permits, texts, prefilter, resources>>
others_backend == <<feeds, storage, identities, pacing, lifecycle, live, images,
    retry, cycles, permits, texts, prefilter, resources>>
others_retry == <<feeds, storage, identities, pacing, lifecycle,
    live, images, backend, cycles, permits, texts, prefilter,
    resources>>
others_cycles == <<feeds, storage, identities, pacing, lifecycle,
    live, images, backend, retry, permits, texts, prefilter,
    resources>>
others_permits == <<feeds, storage, identities, pacing, lifecycle,
    live, images, backend, retry, cycles, texts, prefilter, resources>>
others_texts == <<feeds, storage, identities, pacing, lifecycle,
    live, images, backend, retry, cycles, permits, prefilter,
    resources>>
others_prefilter == <<feeds, storage, identities, pacing, lifecycle,
    live, images, backend, retry, cycles, permits, texts, resources>>
others_resources == <<feeds, storage, identities, pacing, lifecycle,
    live, images, backend, retry, cycles, permits, texts, prefilter>>

\* what the specification of the pipeline leaves alone: the fetch phase, the
\* store and the pacing in detail
aux == <<feeds, storage, identities, pacing, lifecycle, live, images,
         backend, retry, cycles, permits, texts, prefilter,
         resources>>

NoFile == [exists |-> FALSE, sent_entries |-> << >>, sent_hashes |-> << >>]
File(entries, hashes) ==
    [exists |-> TRUE, sent_entries |-> entries, sent_hashes |-> hashes]

ImageSources == {"none", "template", "required"}

\* the points where the pipeline task is suspended in an await; the other
\* positions are inside a synchronous section, which no other task interrupts
Suspended == pc \in {"fetch", "delay", "enhance", "image", "send", "sleep"}
TaskAlive == pc # "idle"

\* ------------------------------------------------------------ StateManager
\* StateManager.is_entry_sent / is_hash_sent
IsEntrySent(id) == id \in Range(sent_entries)
IsHashSent(h) == h \in Range(sent_hashes)

\* dict[key] = value on an insertion-ordered dict
Put(keys, k) == IF k \in Range(keys) THEN keys ELSE Append(keys, k)

\* StateManager.add_sent_entry: the keys of sent_entries and of sent_hashes
\* after recording post (whose post_id field holds id)
AddSentEntry(id, post) ==
    [sent_entries |-> Put(sent_entries, id),
     sent_hashes |-> Put(sent_hashes, StateContentHash(post))]

\* StateManager._validate_state, the key formats
ValidateState(doc) ==
    /\ \A k \in Range(doc.sent_entries) : HexLen(k) >= 32 /\ HexLen(k) <= 64
    /\ \A k \in Range(doc.sent_hashes) : HexLen(k) = 64

\* a load that finds nothing
LoadNothing(doc) == [sent_entries |-> << >>, sent_hashes |-> << >>]

\* StateManager.load_state: the stored maps, or empty ones when the file is
\* absent or fails validation.  Timestamps grow with insertion, so sorting
\* by timestamp keeps the order of the keys.
LoadState(doc) ==
    IF doc.exists /\ ValidateState(doc)
    THEN [sent_entries |-> doc.sent_entries, sent_hashes |-> doc.sent_hashes]
    ELSE [sent_entries |-> << >>, sent_hashes |-> << >>]

\* StateManager.save_state: the state file after a save of the given maps;
\* ok is whether writing, verifying and replacing all went through
SaveState(entries, hashes, ok) ==
    IF ok THEN File(entries, hashes) ELSE state_file

\* ---------------------------------------------------------------- pipeline
NoLocals ==
    /\ result' = None
    /\ processed_content' = None
    /\ image_path' = FALSE
    /\ success' = FALSE

\* the post in processing
Current == new_posts[idx]

\* the pre-filter with the check left out
IsDuplicateNever(p) == FALSE

\* a pre-filter that also looks the content up among the fingerprints
IsDuplicateByHash(p) ==
    IsEntrySent(FilterId(p)) \/ IsHashSent(StateContentHash(NormalizePost(p)))

\* _process_new_posts, the pre-filter: is_entry_sent(post_id)
IsDuplicate(p) == IsEntrySent(FilterId(p))

\* BotController._should_skip_post: the identity, then the controller's md5
\* fingerprint looked up among the store's fingerprints.  No step of the
\* pipeline calls it.
ShouldSkipPost(id, post) ==
    IsEntrySent(id) \/ IsHashSent(ControllerContentHash(post))

\* the positions between the pre-filter and the end of _process_single_post
InProcessing ==
    pc \in {"delay", "content", "enhance", "quality", "image", "send", "record"}

\* _process_post_content, the length check on the original content
TooShort(post) == Len(post.title) < MinTitleLen \/ Len(post.description) < MinDescLen

\* _process_post_content, use_ai; yandex_gpt.error_count is set to 0 at
\* construction and never changed, so is_available() is yandex_gpt.active.
\* config is the object handed to the constructors and is taken to carry the
\* attribute ENABLE_YAGPT; a read that raises is a PostException step.
UseAi == ENABLE_YAGPT

\* _process_post_content, the content built from a title and a description
Truncated(t, d) ==
    Some(TruncateText(t, MAX_TITLE_LENGTH), TruncateText(d, MAX_DESC_LENGTH))

\* _process_post_content, what a null answer of enhance() leads to: None,
\* the post is skipped
ContentOnNull(post) == None

\* the part after enhance() with the check for low-quality phrases left out
ContentUnchecked(post, r) ==
    IF ~r.some THEN ContentOnNull(post) ELSE Truncated(r.title, r.description)

\* _process_post_content, the part after enhance() returned r
ContentAfterEnhance(post, r) ==
    IF ~r.some THEN ContentOnNull(post)
    ELSE LET c == Truncated(r.title, r.description)
         IN  IF ContainsLowQualityPhrases(c) THEN None ELSE c

\* AsyncYandexGPT.enhance: null (inactive backend, too many tokens, non-200
\* answer, timeout, exception, empty answer) or the parsed rewrite
EnhanceOutcomes == IF UseAi THEN {None} \cup Rewrites ELSE {None}

\* recording whatever the publish call returned
RecordAlways(ok) == TRUE

\* _process_single_post, `if success:` after the publish call
RecordAfter(ok) == ok

\* giving a post up without moving on: the same post is taken up again
SkipAndStay ==
    /\ pc' = "head"
    /\ NoLocals
    /\ UNCHANGED <<idx, skipped_count>>

\* the post is given up: _process_single_post returns False, or the handler
\* of _process_new_posts catches; skipped_count += 1 and the loop goes on
Skip ==
    /\ skipped_count' = skipped_count + 1
    /\ idx' = idx + 1
    /\ pc' = "head"
    /\ NoLocals

\* telegram_bot.send_post is called for the current post
CallPublish(content, image) ==
    /\ processed_content' = content
    /\ image_path' = image
    /\ pc' = "send"
    /\ UNCHANGED <<idx, skipped_count, result, success>>

\* _process_single_post, step 4: with IMAGE_SOURCE 'none' the publish call
\* follows at once, otherwise _get_post_image is awaited
AfterContent(content) ==
    IF IMAGE_SOURCE = "none"
    THEN CallPublish(content, FALSE)
    ELSE /\ processed_content' = content
         /\ pc' = "image"
         /\ UNCHANGED <<idx, skipped_count, result, image_path, success>>

\* BotController.start
Start ==
    /\ ~is_running
    /\ is_running' = TRUE
    /\ pc' = "fetch"
    /\ UNCHANGED <<new_posts, idx, counters, locals, store, state_file,
                   stats_errors, config, history>>
    /\ UNCHANGED aux

\* _rss_processing_loop / _fetch_all_feeds: the fetch phase of a cycle ends
\* with a batch; a feed that raised is logged and counted in stats['errors']
FetchAllFeeds ==
    /\ pc = "fetch"
    /\ \E batch \in Batches : new_posts' = batch
    /\ \E feed_raised \in {FALSE, stats_errors < MaxErrors} :
        stats_errors' = IF feed_raised THEN stats_errors + 1 ELSE stats_errors
    /\ idx' = 1
    /\ skipped_count' = 0
    /\ duplicate_count' = 0
    /\ pc' = "head"
    /\ UNCHANGED <<is_running, locals, store, state_file, config, history>>
    /\ UNCHANGED aux

\* _process_new_posts, a post the pre-filter knows: duplicate, continue
SkipDuplicate ==
    /\ pc = "head"
    /\ idx <= Len(new_posts)
    /\ is_running
    /\ IsDuplicate(Current)
    /\ duplicate_count' = duplicate_count + 1
    /\ idx' = idx + 1
    /\ UNCHANGED <<is_running, pc, new_posts, skipped_count, locals,
                   store, state_file, stats_errors, config, history>>
    /\ UNCHANGED aux

\* _process_new_posts, a post the pre-filter lets through;
\* _enforce_post_delay sleeps when the last publish is too recent
BeginPost ==
    /\ pc = "head"
    /\ idx <= Len(new_posts)
    /\ is_running
    /\ ~IsDuplicate(Current)
    /\ \E wait \in BOOLEAN : pc' = IF wait THEN "delay" ELSE "content"
    /\ UNCHANGED <<is_running, new_posts, idx, counters, locals, store,
                   state_file, stats_errors, config, history>>
    /\ UNCHANGED aux

\* _enforce_post_delay, the sleep is over
EnforcePostDelay ==
    /\ pc = "delay"
    /\ pc' = "content"
    /\ UNCHANGED <<is_running, new_posts, idx, counters, locals, store,
                   state_file, stats_errors, config, history>>
    /\ UNCHANGED aux

\* _process_single_post steps 1-3 up to the call of enhance()
ProcessContent ==
    /\ pc = "content"
    /\ LET post == NormalizePost(Current)
       IN  IF TooShort(post)
           THEN Skip
           ELSE IF UseAi
           THEN /\ pc' = "enhance"
                /\ UNCHANGED <<idx, skipped_count, locals>>
           ELSE AfterContent(Truncated(post.title, post.description))
    /\ UNCHANGED <<is_running, new_posts, duplicate_count, store,
                   state_file, stats_errors, config, history>>
    /\ UNCHANGED aux

\* enhance() returns
EnhanceReturn ==
    /\ pc = "enhance"
    /\ \E r \in EnhanceOutcomes : result' = r
    /\ pc' = "quality"
    /\ UNCHANGED <<is_running, new_posts, idx, counters,
                   processed_content, image_path, success, store, state_file,
                   stats_errors, config, history>>
    /\ UNCHANGED aux

\* _process_post_content after enhance(), then step 4 of _process_single_post
QualityCheck ==
    /\ pc = "quality"
    /\ LET c == ContentAfterEnhance(NormalizePost(Current), result)
       IN  IF ~c.some
           THEN Skip
           ELSE AfterContent(c)
    /\ UNCHANGED <<is_running, new_posts, duplicate_count, store,
                   state_file, stats_errors, config, history>>
    /\ UNCHANGED aux

\* _get_post_image returns a file, returns nothing, or raises
GetPostImage ==
    /\ pc = "image"
    /\ \E img \in {"file", "nothing", "raise"} :
        IF img # "file" /\ IMAGE_SOURCE = "required"
        THEN Skip
        ELSE CallPublish(processed_content, img = "file")
    /\ UNCHANGED <<is_running, new_posts, duplicate_count, store,
                   state_file, stats_errors, config, history>>
    /\ UNCHANGED aux

\* _send_post_to_telegram returns: send_post returned true, returned false,
\* or raised (caught, false)
SendPost ==
    /\ pc = "send"
    /\ \E outcome \in {"true", "false", "raise"} :
        LET ok == (outcome = "true")
        IN  IF RecordAfter(ok)
            THEN /\ success' = ok
                 /\ pc' = "record"
                 /\ UNCHANGED <<idx, skipped_count, result, processed_content,
                                image_path>>
            ELSE Skip
    /\ UNCHANGED <<is_running, new_posts, duplicate_count, store,
                   state_file, stats_errors, config, history>>
    /\ UNCHANGED aux

\* _update_stats_after_post: add_sent_entry; _process_single_post returns True
Record ==
    /\ pc = "record"
    /\ LET st == AddSentEntry(PostId(Current), NormalizePost(Current))
       IN  /\ sent_entries' = st.sent_entries
           /\ sent_hashes' = st.sent_hashes
    /\ idx' = idx + 1
    /\ pc' = "head"
    /\ NoLocals
    /\ UNCHANGED <<is_running, new_posts, counters, state_file,
                   stats_errors, config, loaded, cleared>>
    /\ UNCHANGED aux

\* an exception raised while a post is processed, caught by the handler of
\* _process_single_post, of _process_post_content or of _process_new_posts
PostException ==
    /\ pc \in {"delay", "content", "quality"}
    /\ Skip
    /\ UNCHANGED <<is_running, new_posts, duplicate_count, store,
                   state_file, stats_errors, config, history>>
    /\ UNCHANGED aux

\* the batch is through: _process_new_posts returns (its locals are gone);
\* back in _rss_processing_loop, the periodic save when more than 300 s have
\* passed since the last one, then the sleep
EndCycle ==
    /\ pc = "head"
    /\ idx > Len(new_posts) \/ ~is_running
    /\ \E due \in BOOLEAN, ok \in BOOLEAN :
        state_file' = IF due THEN SaveState(sent_entries, sent_hashes, ok)
                      ELSE state_file
    /\ new_posts' = << >>
    /\ idx' = 1
    /\ skipped_count' = 0
    /\ duplicate_count' = 0
    /\ pc' = "sleep"
    /\ UNCHANGED <<is_running, locals, store, stats_errors, config,
                   loaded, cleared>>
    /\ UNCHANGED aux

\* asyncio.sleep(CHECK_INTERVAL) is over
Sleep ==
    /\ pc = "sleep"
    /\ pc' = IF is_running THEN "fetch" ELSE "idle"
    /\ UNCHANGED <<is_running, new_posts, idx, counters, locals, store,
                   state_file, stats_errors, config, history>>
    /\ UNCHANGED aux

\* ---------------------------------------------------- administration, process
\* BotController.stop: the pipeline task is cancelled at the await it is
\* suspended in (CancelledError passes the `except Exception` handlers and
\* ends the loop); then _safe_shutdown, which may raise (stop then returns
\* without saving), and the final save_state
Stop ==
    /\ is_running
    /\ Suspended
    /\ is_running' = FALSE
    /\ pc' = "idle"
    /\ new_posts' = << >>
    /\ idx' = 1
    /\ skipped_count' = 0
    /\ duplicate_count' = 0
    /\ NoLocals
    /\ \E shutdown_ok \in BOOLEAN, ok \in BOOLEAN :
        state_file' = IF shutdown_ok
                      THEN SaveState(sent_entries, sent_hashes, ok)
                      ELSE state_file
    /\ UNCHANGED <<store, stats_errors, config, loaded, cleared>>
    /\ UNCHANGED aux

\* AsyncTelegramBot.handle_clear_history
ClearHistory ==
    /\ Suspended \/ ~TaskAlive
    /\ sent_entries' = << >>
    /\ cleared' = TRUE
    /\ UNCHANGED <<is_running, pc, new_posts, idx, counters, locals,
                   sent_hashes, state_file, stats_errors, config, loaded>>
    /\ UNCHANGED aux

\* the state file after StateManager and BotController are constructed on
\* state file doc: an absent file is created by a save of the fresh state
FileAfterInit(doc) ==
    IF doc.exists THEN {doc} ELSE {doc, File(<< >>, << >>)}

\* the process is killed at any point and started again: the constructors
\* load the state file
Restart ==
    /\ LET st == LoadState(state_file)
       IN  /\ sent_entries' = st.sent_entries
           /\ sent_hashes' = st.sent_hashes
    /\ state_file' \in FileAfterInit(state_file)
    /\ loaded' = Range(state_file.sent_entries)
    /\ cleared' = FALSE
    /\ is_running' = FALSE
    /\ pc' = "idle"
    /\ new_posts' = << >>
    /\ idx' = 1
    /\ skipped_count' = 0
    /\ duplicate_count' = 0
    /\ stats_errors' = 0
    /\ NoLocals
    /\ UNCHANGED config
    /\ UNCHANGED aux

\* the fetch phase is not looked into
FeedsIdle ==
    /\ RSS_ACTIVE = << >>
    /\ feed_i = 0
    /\ outcomes = << >>

\* the files of the store are not looked into
StorageIdle ==
    /\ state = << >>
    /\ file = << >>
    /\ tmp_file = << >>
    /\ backups = {}
    /\ store_pc = "idle"
    /\ last = << >>
    /\ clock = 0

\* no identity is derived apart from the pipeline
IdentitiesIdle ==
    /\ post_a = << >>
    /\ post_b = << >>
    /\ id_a = << >>
    /\ id_b = << >>

\* the transform backend is not looked into
BackendIdle ==
    /\ active = FALSE
    /\ error_count = 0
    /\ backend_pc = "idle"
    /\ enhance_log = << >>

\* the resolution of images is not looked into
ImagesIdle ==
    /\ image_cfg = << >>
    /\ image_post = << >>
    /\ image_pc = "idle"
    /\ tried = << >>
    /\ resolved = "nothing"
    /\ published = "no"

\* the live lists of feeds are not looked into
LiveIdle ==
    /\ RSS_URLS = << >>
    /\ fetch_pc = "idle"
    /\ at_begin = << >>
    /\ fetched = << >>
    /\ feed_errors = << >>

\* the tasks are not looked into
LifecycleIdle ==
    /\ alive = << >>
    /\ unwinding = << >>
    /\ stop_pc = "idle"
    /\ rss_pc = "none"
    /\ writers = {}
    /\ stopped = << >>

\* the attempts of one fetch are not looked into
RetryIdle ==
    /\ attempt = 0
    /\ retry_pc = "idle"
    /\ attempt_log = << >>
    /\ fetch_ret = "none"
    /\ parser_errors = 0

\* the cycle loop is not looked into
CyclesIdle ==
    /\ cycle_pc = "none"
    /\ cancel_requested = FALSE
    /\ save_due = FALSE
    /\ cycle_errors = 0
    /\ last_cycle = "none"

\* the generation permits are not looked into
PermitsIdle ==
    /\ sem_initial = 0
    /\ sem_value = 0
    /\ job_pc = "none"
    /\ job_cancelled = FALSE
    /\ jobs_done = 0

\* no text is truncated apart from the pipeline
TextsIdle ==
    /\ trunc_text = << >>
    /\ trunc_max = 0
    /\ trunc_out = << >>
    /\ trunc_pc = "idle"

\* the pre-filter is not looked into apart from the pipeline
PrefilterIdle ==
    /\ cand = << >>
    /\ filter_pc = "idle"
    /\ filter_key = << >>
    /\ record_key = << >>
    /\ filter_outcome = "none"

\* session and executor are not looked into
ResourcesIdle ==
    /\ session = "none"
    /\ executor_down = FALSE
    /\ gathering = 0
    /\ closing = 0
    /\ refresh_pc = "sleep"
    /\ leaked = 0
    /\ started_ok = FALSE

\* the clock is not looked into
PacingIdle ==
    /\ now = 0
    /\ last_post_time = 0
    /\ wake_at = 0
    /\ call_times = << >>

\* BotController.__init__ and StateManager.__init__ are taken to complete.
\* the state files a first run can find: none, or the file a previous run
\* saved after it had sent p1
InitialFiles ==
    {NoFile,
     File(<<PostId("p1")>>, <<StateContentHash(NormalizePost("p1"))>>)}

Init ==
    /\ \E doc \in InitialFiles :
        /\ sent_entries = LoadState(doc).sent_entries
        /\ sent_hashes = LoadState(doc).sent_hashes
        /\ state_file \in FileAfterInit(doc)
        /\ loaded = Range(doc.sent_entries)
    /\ ENABLE_YAGPT \in BOOLEAN
    /\ IMAGE_SOURCE \in ImageSources
    /\ is_running = FALSE
    /\ pc = "idle"
    /\ new_posts = << >>
    /\ idx = 1
    /\ skipped_count = 0
    /\ duplicate_count = 0
    /\ result = None
    /\ processed_content = None
    /\ image_path = FALSE
    /\ success = FALSE
    /\ stats_errors = 0
    /\ cleared = FALSE
    /\ FeedsIdle
    /\ StorageIdle
    /\ IdentitiesIdle
    /\ PacingIdle
    /\ LifecycleIdle
    /\ LiveIdle
    /\ ImagesIdle
    /\ BackendIdle
    /\ RetryIdle
    /\ CyclesIdle
    /\ PermitsIdle
    /\ TextsIdle
    /\ PrefilterIdle
    /\ ResourcesIdle

Next ==
    \/ Start
    \/ FetchAllFeeds
    \/ SkipDuplicate
    \/ BeginPost
    \/ EnforcePostDelay
    \/ ProcessContent
    \/ EnhanceReturn
    \/ QualityCheck
    \/ GetPostImage
    \/ SendPost
    \/ Record
    \/ PostException
    \/ EndCycle
    \/ Sleep
    \/ Stop
    \/ ClearHistory
    \/ Restart

Spec == Init /\ [][Next]_vars

\* -------------------------------------------------- the fetch phase, feed by feed
MaxFeeds == 3

\* the ways the body of the loop of _fetch_all_feeds can end for an active
\* feed: fetch_feed returned nothing, parse_entries returned no (valid)
\* entries, something raised, or entries were added to the batch
FeedOutcomes == {"null", "empty", "raise", "entries"}

\* the entries that feed i delivers when it is fetched and parsed
FeedEntries(i) == <<[feed |-> i, n |-> 1], [feed |-> i, n |-> 2]>>

\* a loop that gives up at the first feed that raises
AbortOnRaise(i, outcome) ==
    IF outcome = "raise" THEN Len(RSS_ACTIVE) + 1 ELSE i + 1

\* _fetch_all_feeds: the feed the loop takes up after feed i ended with
\* outcome (`continue`, the end of the body, or the handler at 399-401)
NextFeed(i, outcome) == i + 1

\* the controller and the store as they are while a cycle begins, for the
\* specifications that look at one part of the program
PipelineAtFetch ==
    /\ is_running = TRUE
    /\ pc = "fetch"
    /\ new_posts = << >>
    /\ idx = 1
    /\ skipped_count = 0
    /\ duplicate_count = 0
    /\ result = None
    /\ processed_content = None
    /\ image_path = FALSE
    /\ success = FALSE
    /\ sent_entries = << >>
    /\ sent_hashes = << >>
    /\ state_file = NoFile
    /\ stats_errors = 0
    /\ ENABLE_YAGPT = FALSE
    /\ IMAGE_SOURCE = "none"
    /\ loaded = {}
    /\ cleared = FALSE

\* a cycle begins: _fetch_all_feeds is entered with some list of feeds, each
\* active or not
FeedsInit ==
    /\ PipelineAtFetch
    /\ \E n \in 1..MaxFeeds : RSS_ACTIVE \in [1..n -> BOOLEAN]
    /\ feed_i = 1
    /\ outcomes = [i \in 1..Len(RSS_ACTIVE) |-> "pending"]
    /\ StorageIdle
    /\ IdentitiesIdle
    /\ PacingIdle
    /\ LifecycleIdle
    /\ LiveIdle
    /\ ImagesIdle
    /\ BackendIdle
    /\ RetryIdle
    /\ CyclesIdle
    /\ PermitsIdle
    /\ TextsIdle
    /\ PrefilterIdle
    /\ ResourcesIdle

\* _fetch_all_feeds, the head of the loop body (353-361): an inactive feed
\* is passed over, for an active one fetch_feed is awaited.  is_running is
\* true here: stop() cancels the task at its await.
FeedLoopHead ==
    /\ pc = "fetch"
    /\ feed_i >= 1
    /\ feed_i <= Len(RSS_ACTIVE)
    /\ is_running
    /\ IF RSS_ACTIVE[feed_i]
       THEN /\ pc' = "feed_await"
            /\ UNCHANGED <<feed_i, outcomes>>
       ELSE /\ outcomes' = [outcomes EXCEPT ![feed_i] = "skipped"]
            /\ feed_i' = NextFeed(feed_i, "skipped")
            /\ pc' = pc
    /\ UNCHANGED <<is_running, new_posts, idx, counters, locals, store,
                   state_file, stats_errors, config, history, RSS_ACTIVE>>
    /\ UNCHANGED others_feeds

\* _fetch_all_feeds, the rest of the loop body (363-401) for an active feed
FetchFeed ==
    /\ pc = "feed_await"
    /\ \E outcome \in FeedOutcomes :
        /\ outcomes' = [outcomes EXCEPT ![feed_i] = outcome]
        /\ new_posts' = IF outcome = "entries"
                        THEN new_posts \o FeedEntries(feed_i)
                        ELSE new_posts
        /\ stats_errors' = IF outcome = "raise"
                           THEN stats_errors + 1
                           ELSE stats_errors
        /\ feed_i' = NextFeed(feed_i, outcome)
    /\ pc' = "fetch"
    /\ UNCHANGED <<is_running, idx, counters, locals, store, state_file,
                   config, history, RSS_ACTIVE>>
    /\ UNCHANGED others_feeds

\* BotController.stop while fetch_feed is awaited: the task is cancelled
FetchCancelled ==
    /\ pc = "feed_await"
    /\ is_running' = FALSE
    /\ pc' = "idle"
    /\ UNCHANGED <<new_posts, idx, counters, locals, store, state_file,
                   stats_errors, config, history, feeds>>
    /\ UNCHANGED others_feeds

\* _fetch_all_feeds returns the batch, _process_new_posts is entered
FetchReturn ==
    /\ pc = "fetch"
    /\ feed_i > Len(RSS_ACTIVE)
    /\ pc' = "head"
    /\ UNCHANGED <<is_running, new_posts, idx, counters, locals, store,
                   state_file, stats_errors, config, history, feeds>>
    /\ UNCHANGED others_feeds

FeedsNext ==
    \/ FeedLoopHead
    \/ FetchFeed
    \/ FetchCancelled
    \/ FetchReturn

SpecFeeds == FeedsInit /\ [][FeedsNext]_vars

\* ------------------------------------------------- the store, file by file
MaxInserts == 1
max_entries == 1

\* the sections that _validate_state requires
required_keys == {"sent_entries", "sent_hashes", "stats", "metadata"}

\* a key that is no digest: add_entry takes a URL as entry_id
UrlKey(data) == [alg |-> "url", data |-> data]

\* ^[a-f0-9]{32,64}$ and ^[a-f0-9]{64}$
IsHex(k) == k.alg \in {"md5", "sha256"}
MatchesEntryKey(k) == IsHex(k) /\ HexLen(k) >= 32 /\ HexLen(k) <= 64
MatchesHashKey(k) == IsHex(k) /\ HexLen(k) = 64

\* an item of a map (key -> timestamp), or a record of a legacy list
\* (post_id, pub_date); a legacy record can lack its post_id
Item(k, t) == [key |-> k, value |-> t]
NoPostId == [alg |-> "none", data |-> << >>]
Keys(items) == {items[i].key : i \in 1..Len(items)}

\* a JSON document: the sections it has, whether sent_entries is a list
\* (the format of version 1.0), the two maps in the order of the file, the
\* list entry_hashes of the old format, and of the metadata what marks a
\* recovery and a conversion
Document(keys, legacy, entries, hashes, old_hashes, recovery, converted) ==
    [keys |-> keys, legacy |-> legacy, sent_entries |-> entries,
     sent_hashes |-> hashes, entry_hashes |-> old_hashes,
     recovery_reason |-> recovery, converted_from_legacy |-> converted]

\* StateManager.__init__: the state before load_state
DefaultState ==
    Document(required_keys, FALSE, << >>, << >>, << >>, FALSE, FALSE)

\* load_state, the handler: the state after a recovery
RecoveredState ==
    Document(required_keys, FALSE, << >>, << >>, << >>, TRUE, FALSE)

\* what a path of the file system can hold: nothing, no bytes, the first
\* bytes of a document, or a whole document
Absent == [kind |-> "absent", doc |-> DefaultState]
Empty == [kind |-> "empty", doc |-> DefaultState]
TruncatedFile(d) == [kind |-> "truncated", doc |-> d]
Json(d) == [kind |-> "json", doc |-> d]

\* dict[key] = value on an insertion-ordered dict
PutItem(items, k, t) ==
    IF k \in Keys(items)
    THEN [i \in 1..Len(items) |->
            IF items[i].key = k THEN Item(k, t) ELSE items[i]]
    ELSE Append(items, Item(k, t))

\* sorted(items, key=lambda x: x[1]), a stable sort
InsertByValue(sorted, e) ==
    LET n == Cardinality({i \in 1..Len(sorted) : sorted[i].value <= e.value})
    IN SubSeq(sorted, 1, n) \o <<e>> \o SubSeq(sorted, n + 1, Len(sorted))

RECURSIVE SortByValue(_)
SortByValue(items) ==
    IF items = << >> THEN << >>
    ELSE InsertByValue(SortByValue(SubSeq(items, 1, Len(items) - 1)),
                       items[Len(items)])

\* _convert_legacy_state, the loop over the list sent_entries
RECURSIVE LegacyEntries(_)
LegacyEntries(list) ==
    IF list = << >> THEN << >>
    ELSE LET e == list[Len(list)]
             before == LegacyEntries(SubSeq(list, 1, Len(list) - 1))
         IN IF e.key # NoPostId THEN PutItem(before, e.key, e.value)
            ELSE before

\* _convert_legacy_state, the loop over entry_hashes at the time t
RECURSIVE LegacyHashes(_, _)
LegacyHashes(list, t) ==
    IF list = << >> THEN << >>
    ELSE LET h == list[Len(list)]
             before == LegacyHashes(SubSeq(list, 1, Len(list) - 1), t)
         IN IF MatchesHashKey(h) THEN PutItem(before, h, t) ELSE before

\* a conversion that carries no record over
ConvertNoRecords(d, t) ==
    Document(required_keys, FALSE, << >>, LegacyHashes(d.entry_hashes, t),
             << >>, FALSE, TRUE)

\* the top-level fields _convert_legacy_state copies when it finds them
CarriedKeys == {"yagpt_cache", "yagpt_error_count", "yagpt_active", "user_settings"}

\* a conversion that copies no additional field
CarriedNothing(d) == {}

\* _convert_legacy_state, the loop over the additional fields (210-213)
CarriedFields(d) == d.keys \cap CarriedKeys

\* _convert_legacy_state
ConvertLegacyState(d, t) ==
    Document(required_keys \cup CarriedFields(d), FALSE,
             LegacyEntries(d.sent_entries),
             LegacyHashes(d.entry_hashes, t), << >>, FALSE, TRUE)

\* a validation that looks at the sections and not at the keys
ValidateSections(d) ==
    /\ required_keys \subseteq d.keys
    /\ ~d.legacy

\* _validate_state
ValidateDocument(d) ==
    /\ required_keys \subseteq d.keys
    /\ ~d.legacy
    /\ \A k \in Keys(d.sent_entries) : MatchesEntryKey(k)
    /\ \A k \in Keys(d.sent_hashes) : MatchesHashKey(k)

\* load_state, 124-127: a document whose sent_entries is a list is converted
AfterConversion(d, t) ==
    IF "sent_entries" \in d.keys /\ d.legacy THEN ConvertLegacyState(d, t)
    ELSE d

\* a load that takes only documents which have all their sections
KeepSections(d) == d

\* load_state, 129-145: the sections metadata, sent_hashes and stats are added
\* to a document that lacks them
AddMissingSections(d) ==
    [d EXCEPT !.keys = @ \cup {"metadata", "sent_hashes", "stats"}]

\* load_state, 147-154
SortSections(d) ==
    [d EXCEPT !.sent_entries = SortByValue(@),
              !.sent_hashes = SortByValue(@)]

\* load_state, the try block for a file that exists, read at the time t:
\* whether it ended without an exception and the document it made
LoadedDocument(f, t) ==
    IF f.kind # "json"
    THEN [ok |-> FALSE, legacy |-> FALSE, doc |-> f.doc]
    ELSE LET converted == AfterConversion(f.doc, t)
             complete == AddMissingSections(converted)
             took_legacy == "sent_entries" \in f.doc.keys /\ f.doc.legacy
         IN IF "sent_entries" \notin complete.keys
            THEN [ok |-> FALSE, legacy |-> took_legacy, doc |-> complete]
            ELSE [ok |-> ValidateDocument(SortSections(complete)),
                  legacy |-> took_legacy,
                  doc |-> SortSections(complete)]

\* the timestamps that the files found at the start carry
OldStamps == <<1, 2>>

\* the files that the program can find at its state file when it starts
StoredDocuments ==
    LET a == Md5(<<"a">>)
        b == Md5(<<"b">>)
        ha == Sha256(<<"a">>)
        whole == Document(required_keys, FALSE,
                          <<Item(a, 1), Item(b, 2)>>, <<Item(ha, 1)>>,
                          << >>, FALSE, FALSE)
    IN  {whole,
         \* written in another order than that of the timestamps
         [whole EXCEPT !.sent_entries = <<Item(b, 2), Item(a, 1)>>],
         \* a key of sent_entries that is no digest
         [whole EXCEPT !.sent_entries = <<Item(a, 1), Item(UrlKey(<<"b">>), 2)>>],
         \* a key of sent_hashes that is not 64 digits long
         [whole EXCEPT !.sent_hashes = <<Item(ha, 1), Item(b, 2)>>],
         \* one section is not there
         [whole EXCEPT !.keys = @ \ {"sent_entries"}, !.sent_entries = << >>],
         [whole EXCEPT !.keys = @ \ {"sent_hashes"}, !.sent_hashes = << >>],
         [whole EXCEPT !.keys = @ \ {"stats"}],
         [whole EXCEPT !.keys = @ \ {"metadata"}],
         \* the format of version 1.0
         Document({"sent_entries"}, TRUE, <<Item(b, 2), Item(a, 1)>>,
                  << >>, << >>, FALSE, FALSE),
         Document({"sent_entries", "stats"}, TRUE,
                  <<Item(a, 1), Item(b, 2)>>, << >>, <<ha, a>>, FALSE, FALSE),
         Document({"sent_entries"}, TRUE, <<Item(a, 1), Item(NoPostId, 2)>>,
                  << >>, << >>, FALSE, FALSE),
         \* additional top-level fields, and one post_id in two records
         Document({"sent_entries", "stats", "yagpt_cache", "last_check"}, TRUE,
                  <<Item(a, 1), Item(a, 2)>>, << >>, << >>, FALSE, FALSE)}

StoredFiles ==
    {Absent, Empty}
        \cup {Json(d) : d \in StoredDocuments}
        \cup {TruncatedFile(d) : d \in {e \in StoredDocuments : ValidateDocument(e)}}

\* the identities that the controller records while it runs
RecordedKeys == {Md5(<<"a">>), Md5(<<"c">>)}

\* how a call of the StateManager ended: which method, whether it raised,
\* and for load_state whether it took the conversion of the old format
Ended(op, raised, legacy) == [op |-> op, raised |-> raised, legacy |-> legacy]

\* _create_backup: the state file, if there is one, is copied to the backup
\* directory; copied is whether shutil.copy2 went through
CreateBackup(copied) ==
    backups' = IF file.kind # "absent" /\ copied THEN backups \cup {file}
               ELSE backups

\* whether _create_backup raises
BackupRaises(copied) == file.kind # "absent" /\ ~copied

\* load_state called on a manager whose state is prior
Load(prior, down) ==
    IF file.kind = "absent"
    THEN /\ state' = prior
         /\ backups' = backups
         /\ last' = Ended("load", FALSE, FALSE)
         /\ store_pc' = "idle"
    ELSE LET r == LoadedDocument(file, clock)
         IN IF r.ok
            THEN /\ state' = r.doc
                 /\ backups' = backups
                 /\ last' = Ended("load", FALSE, r.legacy)
                 /\ store_pc' = "idle"
            ELSE \E copied \in BOOLEAN :
                    /\ CreateBackup(copied)
                    /\ state' = IF BackupRaises(copied) THEN prior
                                ELSE RecoveredState
                    /\ last' = Ended("load", BackupRaises(copied), r.legacy)
                    /\ store_pc' = IF BackupRaises(copied) THEN down
                                   ELSE "idle"

\* the process starts, after a kill at any point or for the first time:
\* StateManager.__init__ sets the default state and calls load_state; an
\* exception of load_state leaves no manager
StoreStart ==
    /\ Load(DefaultState, "down")
    /\ UNCHANGED <<file, tmp_file, clock>>
    /\ UNCHANGED <<pipeline, others_storage>>

\* BotController.__init__, 88: load_state on the manager that exists
StoreLoad ==
    /\ store_pc = "idle"
    /\ Load(state, "idle")
    /\ UNCHANGED <<file, tmp_file, clock>>
    /\ UNCHANGED <<pipeline, others_storage>>

\* add_sent_entry
StoreAdd ==
    /\ store_pc = "idle"
    /\ clock - Len(OldStamps) < MaxInserts
    /\ \E k \in RecordedKeys :
          state' = [state EXCEPT
                      !.sent_entries = PutItem(@, k, clock + 1),
                      !.sent_hashes = PutItem(@, Sha256(k.data), clock + 1)]
    /\ clock' = clock + 1
    /\ last' = Ended("add", FALSE, FALSE)
    /\ UNCHANGED <<file, tmp_file, backups, store_pc>>
    /\ UNCHANGED <<pipeline, others_storage>>

\* the arguments add_entry is called with: the identifier of a record, by
\* its docstring usually a URL, and a hash of the content
EntryIds == {UrlKey(<<"c">>), Md5(<<"c">>)}
HashValues == {Sha256(<<"c">>), Md5(<<"c">>)}

\* add_entry (287-311): a hash that is not 64 hex digits is refused (298-
\* 300); the identifier is only tested for being a non-empty string (294-
\* 296); both maps are written and save_state is called
StoreAddEntry ==
    /\ store_pc = "idle"
    /\ clock - Len(OldStamps) < MaxInserts
    /\ \E entry_id \in EntryIds, hash_value \in HashValues :
        IF ~MatchesHashKey(hash_value)
        THEN /\ last' = Ended("add_entry", FALSE, FALSE)
             /\ UNCHANGED <<state, store_pc, clock>>
        ELSE /\ state' = [state EXCEPT
                            !.sent_entries = PutItem(@, entry_id, clock + 1),
                            !.sent_hashes = PutItem(@, hash_value, clock + 1)]
             /\ clock' = clock + 1
             /\ store_pc' = "open"
             /\ last' = last
    /\ UNCHANGED <<file, tmp_file, backups>>
    /\ UNCHANGED <<pipeline, others_storage>>

\* save_state is called
StoreSave ==
    /\ store_pc = "idle"
    /\ store_pc' = "open"
    /\ UNCHANGED <<state, file, tmp_file, backups, last, clock>>
    /\ UNCHANGED <<pipeline, others_storage>>

\* save_state, the handler at 249-252
SaveFailed ==
    \E copied \in BOOLEAN :
        /\ CreateBackup(copied)
        /\ last' = Ended("save", BackupRaises(copied), FALSE)
        /\ store_pc' = "idle"

\* save_state, 233: the temporary file is opened for writing
SaveOpen ==
    /\ store_pc = "open"
    /\ \/ /\ tmp_file' = Empty
          /\ store_pc' = "dump"
          /\ UNCHANGED <<backups, last>>
       \/ /\ tmp_file' = tmp_file
          /\ SaveFailed
    /\ UNCHANGED <<state, file, clock>>
    /\ UNCHANGED <<pipeline, others_storage>>

\* save_state, 234: json.dump writes the document; the write can raise half
\* way, and the medium can keep less than was written
SaveDump ==
    /\ store_pc = "dump"
    /\ \/ /\ tmp_file' \in {Json(state), TruncatedFile(state)}
          /\ store_pc' = "verify"
          /\ UNCHANGED <<backups, last>>
       \/ /\ tmp_file' = TruncatedFile(state)
          /\ SaveFailed
    /\ UNCHANGED <<state, file, clock>>
    /\ UNCHANGED <<pipeline, others_storage>>

\* a verification that takes any temporary file
VerifiesAnything(f) == TRUE

\* save_state, 237-239: json.loads of what the temporary file holds
Verifies(f) == f.kind = "json"

\* save_state, 237-239: the temporary file is read back and parsed
SaveVerify ==
    /\ store_pc = "verify"
    /\ \/ /\ Verifies(tmp_file)
          /\ store_pc' = "replace"
          /\ UNCHANGED <<backups, last>>
       \/ /\ ~Verifies(tmp_file)
          /\ SaveFailed
    /\ UNCHANGED <<state, file, tmp_file, clock>>
    /\ UNCHANGED <<pipeline, others_storage>>

\* save_state, 242-245: os.replace (os.rename when there is no state file)
SaveReplace ==
    /\ store_pc = "replace"
    /\ \/ /\ file' = tmp_file
          /\ tmp_file' = Absent
          /\ last' = Ended("save", FALSE, FALSE)
          /\ store_pc' = "idle"
          /\ UNCHANGED backups
       \/ /\ UNCHANGED <<file, tmp_file>>
          /\ SaveFailed
    /\ UNCHANGED <<state, clock>>
    /\ UNCHANGED <<pipeline, others_storage>>

\* a cleanup that removes the newest entries
DropNewest(items, n) == SubSeq(items, 1, Len(items) - n)

\* cleanup_old_entries, 322-325: the first n keys are deleted
DropOldest(items, n) == SubSeq(items, n + 1, Len(items))

\* cleanup_old_entries: nothing to do within the bound; else the oldest
\* entries are deleted, and the loop over sent_hashes, when there is a hash,
\* raises AttributeError (an OrderedDict has no peekitem) before anything is
\* removed from sent_hashes and before save_state
StoreCleanup ==
    /\ store_pc = "idle"
    /\ LET current_count == Len(state.sent_entries)
           to_remove == current_count - max_entries
       IN IF current_count <= max_entries
          THEN /\ last' = Ended("cleanup", FALSE, FALSE)
               /\ UNCHANGED <<state, store_pc>>
          ELSE /\ state' = [state EXCEPT
                              !.sent_entries = DropOldest(@, to_remove)]
               /\ IF state.sent_hashes # << >>
                  THEN /\ last' = Ended("cleanup", TRUE, FALSE)
                       /\ store_pc' = "idle"
                  ELSE /\ last' = last
                       /\ store_pc' = "open"
    /\ UNCHANGED <<file, tmp_file, backups, clock>>
    /\ UNCHANGED <<pipeline, others_storage>>

StoreInit ==
    /\ PipelineAtFetch
    /\ FeedsIdle
    /\ IdentitiesIdle
    /\ PacingIdle
    /\ LifecycleIdle
    /\ LiveIdle
    /\ ImagesIdle
    /\ BackendIdle
    /\ RetryIdle
    /\ CyclesIdle
    /\ PermitsIdle
    /\ TextsIdle
    /\ PrefilterIdle
    /\ ResourcesIdle
    /\ file \in StoredFiles
    /\ state = DefaultState
    /\ tmp_file = Absent
    /\ backups = {}
    /\ store_pc = "down"
    /\ last = Ended("none", FALSE, FALSE)
    /\ clock = Len(OldStamps)

StoreNext ==
    \/ StoreStart
    \/ StoreLoad
    \/ StoreAdd
    \/ StoreAddEntry
    \/ StoreSave
    \/ SaveOpen
    \/ SaveDump
    \/ SaveVerify
    \/ SaveReplace
    \/ StoreCleanup

SpecStore == StoreInit /\ [][StoreNext]_vars

\* --------------------------------------------- identities, call by call
\* the posts that _generate_post_id is handed: two links of which one is the
\* beginning of the other, titles (one empty), descriptions and dates
CandidatePosts ==
    [link : {<<"h">>, <<"h", "1">>},
     title : {<< >>, <<"A">>, <<"1", "A">>},
     description : {<<"x">>, <<"y">>},
     pub_date : {1, 2}]

\* no identity derived yet
Underived == [alg |-> "none", data |-> << >>]

IdentityInit ==
    /\ PipelineAtFetch
    /\ FeedsIdle
    /\ StorageIdle
    /\ PacingIdle
    /\ LifecycleIdle
    /\ LiveIdle
    /\ ImagesIdle
    /\ BackendIdle
    /\ RetryIdle
    /\ CyclesIdle
    /\ PermitsIdle
    /\ TextsIdle
    /\ PrefilterIdle
    /\ ResourcesIdle
    /\ post_a \in CandidatePosts
    /\ post_b \in CandidatePosts
    /\ id_a = Underived
    /\ id_b = Underived

\* _generate_post_id(post_a), for the first time or again
DeriveA ==
    /\ id_a' = GeneratePostId(post_a)
    /\ UNCHANGED <<post_a, post_b, id_b>>
    /\ UNCHANGED <<pipeline, others_identities>>

\* _generate_post_id(post_b), for the first time or again
DeriveB ==
    /\ id_b' = GeneratePostId(post_b)
    /\ UNCHANGED <<post_a, post_b, id_a>>
    /\ UNCHANGED <<pipeline, others_identities>>

\* _update_stats_after_post between two derivations: the store takes up an
\* identity that was derived
RecordDerived ==
    /\ \E id \in {id_a, id_b} \ {Underived} :
          /\ id \notin Range(sent_entries)
          /\ sent_entries' = Put(sent_entries, id)
    /\ UNCHANGED <<is_running, pc, new_posts, idx, counters, locals,
                   sent_hashes, state_file, stats_errors, config, history>>
    /\ UNCHANGED <<identities, others_identities>>

IdentityNext ==
    \/ DeriveA
    \/ DeriveB
    \/ RecordDerived

SpecIdentity == IdentityInit /\ [][IdentityNext]_vars

\* ------------------------------------------------- pacing, second by second
MIN_DELAY_BETWEEN_POSTS == 2
MaxTime == 6

\* start() has set last_post_time to the time of the start, and the first
\* fetch phase of the run is under way
PacingInit ==
    /\ PipelineAtFetch
    /\ FeedsIdle
    /\ StorageIdle
    /\ IdentitiesIdle
    /\ LifecycleIdle
    /\ LiveIdle
    /\ ImagesIdle
    /\ BackendIdle
    /\ RetryIdle
    /\ CyclesIdle
    /\ PermitsIdle
    /\ TextsIdle
    /\ PrefilterIdle
    /\ ResourcesIdle
    /\ now = 0
    /\ last_post_time = 0
    /\ wake_at = 0
    /\ call_times = << >>

\* time.time() moves on
Tick ==
    /\ now < MaxTime
    /\ now' = now + 1
    /\ UNCHANGED <<last_post_time, wake_at, call_times>>
    /\ UNCHANGED <<pipeline, others_pacing>>

\* the fetch phase returns two posts that are not recorded and that pass
\* every check on the way to the publish call
PaceBatch ==
    /\ pc = "fetch"
    /\ pc' = "head"
    /\ new_posts' = <<"p1", "p2">>
    /\ idx' = 1
    /\ UNCHANGED <<is_running, counters, locals, store, state_file,
                   stats_errors, config, history>>
    /\ UNCHANGED <<pacing, others_pacing>>

\* _enforce_post_delay, 494-496: the sleep that is due
PaceDelay ==
    /\ pc = "head"
    /\ idx <= Len(new_posts)
    /\ LET time_since_last == now - last_post_time
       IN IF time_since_last < MIN_DELAY_BETWEEN_POSTS
          THEN /\ wake_at' = now + (MIN_DELAY_BETWEEN_POSTS - time_since_last)
               /\ pc' = "delay"
          ELSE /\ wake_at' = wake_at
               /\ pc' = "content"
    /\ UNCHANGED <<now, last_post_time, call_times>>
    /\ UNCHANGED <<is_running, new_posts, idx, counters, locals, store,
                   state_file, stats_errors, config, history>>
    /\ UNCHANGED others_pacing

\* _enforce_post_delay, 498: asyncio.sleep(delay) is over
PaceWake ==
    /\ pc = "delay"
    /\ now >= wake_at
    /\ pc' = "content"
    /\ UNCHANGED <<is_running, new_posts, idx, counters, locals, store,
                   state_file, stats_errors, config, history>>
    /\ UNCHANGED <<pacing, others_pacing>>

\* _process_single_post up to the publish call: _send_post_to_telegram is
\* called at the time now
PaceCall ==
    /\ pc = "content"
    /\ pc' = "send"
    /\ call_times' = Append(call_times, now)
    /\ UNCHANGED <<now, last_post_time, wake_at>>
    /\ UNCHANGED <<is_running, new_posts, idx, counters, locals, store,
                   state_file, stats_errors, config, history>>
    /\ UNCHANGED others_pacing

\* _process_single_post, 550-554, and _update_stats_after_post, 1050:
\* last_post_time after a publish call that returned ok
StampAfter(ok) == IF ok THEN now ELSE last_post_time

\* the publish call returns, true or false (an exception of the call ends
\* like false), and the loop goes to the next post
PaceReturn ==
    /\ pc = "send"
    /\ \E ok \in BOOLEAN :
          /\ success' = ok
          /\ last_post_time' = StampAfter(ok)
    /\ pc' = "head"
    /\ idx' = idx + 1
    /\ UNCHANGED <<now, wake_at, call_times>>
    /\ UNCHANGED <<is_running, new_posts, counters, result,
                   processed_content, image_path, store, state_file,
                   stats_errors, config, history>>
    /\ UNCHANGED others_pacing

PacingNext ==
    \/ Tick
    \/ PaceBatch
    \/ PaceDelay
    \/ PaceWake
    \/ PaceCall
    \/ PaceReturn

SpecPacing == PacingInit /\ [][PacingNext]_vars

\* ------------------------------------------------- start, stop and the tasks
\* The four tasks start() creates (bot_controller.py:175-178).  A cancelled
\* task gets CancelledError at the await it is suspended at and runs no
\* further step of its loop: its handlers break or let the error through,
\* and no handler of the sources catches it around an await.
TaskKinds == {"rss_task", "cleanup_task", "session_refresh_task", "task_monitor_task"}
NoTasks == [k \in TaskKinds |-> 0]
NoWriters == [sent_entries |-> {}, sent_hashes |-> {}]
NeverStopped == [cancelled |-> {}, saved |-> FALSE, returned |-> "never"]

\* everything of the pipeline but the flag start() and stop() set
pipeline_data == <<pc, new_posts, idx, counters, locals, store,
                   state_file, stats_errors, config, history>>

\* start() without the test of the flag
StartUnguarded == TRUE

\* `if self.is_running: return False` of start()
StartGuard == ~is_running

\* BotController.start: no await of start() suspends before the tasks are
\* created (_create_session has no await in it), so the test of the flag,
\* its setting and the creation of the tasks are one step
ControllerStart ==
    /\ StartGuard
    /\ is_running' = TRUE
    /\ alive' = [k \in TaskKinds |-> alive[k] + 1]
    /\ rss_pc' = "fetch"
    /\ UNCHANGED <<unwinding, stop_pc, writers, stopped>>
    /\ UNCHANGED <<pipeline_data, others_lifecycle>>

\* the tasks stop() cancels: the one each handle names, when it is not done
Cancelled == {k \in TaskKinds : alive[k] > 0}

\* BotController.stop up to its first await: the flag is cleared, the tasks
\* are cancelled and gather() is awaited (no task: straight to the shutdown)
StopCancel ==
    /\ is_running
    /\ stop_pc = "idle"
    /\ is_running' = FALSE
    /\ alive' = [k \in TaskKinds |-> IF k \in Cancelled THEN alive[k] - 1 ELSE alive[k]]
    /\ unwinding' = [k \in TaskKinds |-> IF k \in Cancelled THEN unwinding[k] + 1 ELSE unwinding[k]]
    /\ rss_pc' = IF alive'["rss_task"] = 0 THEN "none" ELSE rss_pc
    /\ stop_pc' = IF Cancelled = {} THEN "shutdown" ELSE "gather"
    /\ stopped' = [cancelled |-> Cancelled, saved |-> FALSE, returned |-> "pending"]
    /\ UNCHANGED writers
    /\ UNCHANGED <<pipeline_data, others_lifecycle>>

\* a cancelled task ends
TaskEnds ==
    \E k \in TaskKinds :
        /\ unwinding[k] > 0
        /\ unwinding' = [unwinding EXCEPT ![k] = @ - 1]
        /\ UNCHANGED <<is_running, alive, stop_pc, rss_pc, writers, stopped>>
        /\ UNCHANGED <<pipeline_data, others_lifecycle>>

\* asyncio.gather(*tasks, return_exceptions=True) returns when every task
\* it was given has ended
StopGather ==
    /\ stop_pc = "gather"
    /\ \A k \in stopped.cancelled : unwinding[k] = 0
    /\ stop_pc' = "shutdown"
    /\ UNCHANGED <<is_running, alive, unwinding, rss_pc, writers, stopped>>
    /\ UNCHANGED <<pipeline_data, others_lifecycle>>

\* _safe_shutdown inside stop(): closing the session or shutting down the
\* image generator or the executor may raise; `except Exception` of stop()
\* then logs and returns False
SafeShutdown ==
    /\ stop_pc = "shutdown"
    /\ \E released \in BOOLEAN :
        IF released
        THEN /\ stop_pc' = "save"
             /\ UNCHANGED stopped
        ELSE /\ stop_pc' = "idle"
             /\ stopped' = [stopped EXCEPT !.returned = "False"]
    /\ UNCHANGED <<is_running, alive, unwinding, rss_pc, writers>>
    /\ UNCHANGED <<pipeline_data, others_lifecycle>>

\* self.state_manager.save_state() and `return True` of stop()
StopSave ==
    /\ stop_pc = "save"
    /\ stop_pc' = "idle"
    /\ stopped' = [stopped EXCEPT !.saved = TRUE, !.returned = "True"]
    /\ UNCHANGED <<is_running, alive, unwinding, rss_pc, writers>>
    /\ UNCHANGED <<pipeline_data, others_lifecycle>>

\* _rss_processing_loop of the running task: the fetch, the posts one after
\* the other (a published one is recorded in both maps), the sleep
RssFetched ==
    /\ alive["rss_task"] > 0
    /\ rss_pc = "fetch"
    /\ rss_pc' \in {"post", "sleep"}
    /\ UNCHANGED <<is_running, alive, unwinding, stop_pc, writers, stopped>>
    /\ UNCHANGED <<pipeline_data, others_lifecycle>>

RssPost ==
    /\ alive["rss_task"] > 0
    /\ rss_pc = "post"
    /\ \E sent \in BOOLEAN :
        writers' = IF sent
                   THEN [sent_entries |-> writers.sent_entries \cup {"rss_task"},
                         sent_hashes |-> writers.sent_hashes \cup {"rss_task"}]
                   ELSE writers
    /\ rss_pc' \in {"post", "sleep"}
    /\ UNCHANGED <<is_running, alive, unwinding, stop_pc, stopped>>
    /\ UNCHANGED <<pipeline_data, others_lifecycle>>

RssSleep ==
    /\ alive["rss_task"] > 0
    /\ rss_pc = "sleep"
    /\ rss_pc' = "fetch"
    /\ UNCHANGED <<is_running, alive, unwinding, stop_pc, writers, stopped>>
    /\ UNCHANGED <<pipeline_data, others_lifecycle>>

\* TelegramInterface.handle_clear_history: the handler of the command
\* replaces sent_entries by an empty map
HandleClearHistory ==
    /\ writers' = [writers EXCEPT !.sent_entries = @ \cup {"handle_clear_history"}]
    /\ UNCHANGED <<is_running, alive, unwinding, stop_pc, rss_pc, stopped>>
    /\ UNCHANGED <<pipeline_data, others_lifecycle>>

\* the posts in processing: one per running loop that is at a post
PostsInProcessing == IF rss_pc = "post" THEN alive["rss_task"] ELSE 0

\* the controller after __init__: not running, no task created
LifecycleInit ==
    /\ is_running = FALSE
    /\ pc = "idle"
    /\ new_posts = << >>
    /\ idx = 1
    /\ skipped_count = 0
    /\ duplicate_count = 0
    /\ result = None
    /\ processed_content = None
    /\ image_path = FALSE
    /\ success = FALSE
    /\ sent_entries = << >>
    /\ sent_hashes = << >>
    /\ state_file = NoFile
    /\ stats_errors = 0
    /\ ENABLE_YAGPT = FALSE
    /\ IMAGE_SOURCE = "none"
    /\ loaded = {}
    /\ cleared = FALSE
    /\ FeedsIdle
    /\ StorageIdle
    /\ IdentitiesIdle
    /\ PacingIdle
    /\ LiveIdle
    /\ ImagesIdle
    /\ BackendIdle
    /\ RetryIdle
    /\ CyclesIdle
    /\ PermitsIdle
    /\ TextsIdle
    /\ PrefilterIdle
    /\ ResourcesIdle
    /\ alive = NoTasks
    /\ unwinding = NoTasks
    /\ stop_pc = "idle"
    /\ rss_pc = "none"
    /\ writers = NoWriters
    /\ stopped = NeverStopped

LifecycleNext ==
    \/ ControllerStart
    \/ StopCancel
    \/ TaskEnds
    \/ StopGather
    \/ SafeShutdown
    \/ StopSave
    \/ RssFetched
    \/ RssPost
    \/ RssSleep
    \/ HandleClearHistory

SpecLifecycle == LifecycleInit /\ [][LifecycleNext]_vars

\* --------------------------------------- the fetch phase over the live lists
\* The handlers of the administrative interface change config.RSS_URLS and
\* config.RSS_ACTIVE in place while _fetch_all_feeds, suspended in
\* fetch_feed, is in the middle of its loop over them.
MaxUrls == 2
MaxFailures == 2
Urls == 1..MaxUrls

\* list.pop(index), with indices from 1
Pop(seq, j) == [k \in 1..(Len(seq) - 1) |-> IF k < j THEN seq[k] ELSE seq[k + 1]]

\* the lists of distinct feeds of at most MaxUrls entries
FeedLists ==
    {l \in UNION {[1..n -> Urls] : n \in 0..MaxUrls} :
        \A j, k \in 1..Len(l) : l[j] = l[k] => j = k}

\* the feeds of urls whose flag in flags is set, in the order of the list
RECURSIVE ActiveUrls(_, _)
ActiveUrls(urls, flags) ==
    IF urls = << >> THEN << >>
    ELSE (IF Head(flags) THEN <<Head(urls)>> ELSE << >>)
             \o ActiveUrls(Tail(urls), Tail(flags))

\* the flag of feed u in the live lists
IsActive(u) == \E j \in 1..Len(RSS_URLS) : RSS_URLS[j] = u /\ RSS_ACTIVE[j]

\* the failures counted so far for the feeds of set
RECURSIVE Failures(_)
Failures(set) ==
    IF set = {} THEN 0
    ELSE LET u == CHOOSE v \in set : TRUE
         IN feed_errors[u] + Failures(set \ {u})

\* a failure that switches the feed off once MaxFailures are counted
FetchFailedDisables(u) ==
    /\ feed_errors' = [feed_errors EXCEPT ![u] = @ + 1]
    /\ RSS_ACTIVE' = [j \in 1..Len(RSS_ACTIVE) |->
                        IF RSS_URLS[j] = u /\ feed_errors'[u] >= MaxFailures
                        THEN FALSE ELSE RSS_ACTIVE[j]]

\* AsyncRSSParser.fetch_feed, a failed fetch of feed u: the failure is
\* counted in feed_errors and None is returned
FetchFailed(u) ==
    /\ feed_errors' = [feed_errors EXCEPT ![u] = @ + 1]
    /\ UNCHANGED RSS_ACTIVE

\* _fetch_all_feeds is entered (343-352)
CycleBegin ==
    /\ fetch_pc \in {"idle", "done"}
    /\ fetch_pc' = "loop"
    /\ feed_i' = 1
    /\ at_begin' = ActiveUrls(RSS_URLS, RSS_ACTIVE)
    /\ fetched' = << >>
    /\ UNCHANGED <<RSS_URLS, RSS_ACTIVE, feed_errors>>
    /\ UNCHANGED <<pipeline, outcomes, others_live>>

\* the head of the loop body (353-370): enumerate() takes the entry at its
\* index from the list as it is now, the flag at that index is read from
\* RSS_ACTIVE as it is now, and fetch_feed is awaited for an active feed
LiveLoopHead ==
    /\ fetch_pc = "loop"
    /\ feed_i <= Len(RSS_URLS)
    /\ IF RSS_ACTIVE[feed_i]
       THEN /\ fetch_pc' = "await"
            /\ fetched' = Append(fetched, RSS_URLS[feed_i])
            /\ UNCHANGED feed_i
       ELSE /\ feed_i' = feed_i + 1
            /\ UNCHANGED <<fetch_pc, fetched>>
    /\ UNCHANGED <<RSS_URLS, RSS_ACTIVE, at_begin, feed_errors>>
    /\ UNCHANGED <<pipeline, outcomes, others_live>>

\* fetch_feed returns, with the feed or after a failure (63-123), and the
\* loop goes on to the next index
LiveFetchDone ==
    /\ fetch_pc = "await"
    /\ \E ok \in BOOLEAN :
        IF ok
        THEN UNCHANGED <<feed_errors, RSS_ACTIVE>>
        ELSE /\ Failures(Urls) < MaxFailures
             /\ FetchFailed(fetched[Len(fetched)])
    /\ feed_i' = feed_i + 1
    /\ fetch_pc' = "loop"
    /\ UNCHANGED <<RSS_URLS, at_begin, fetched>>
    /\ UNCHANGED <<pipeline, outcomes, others_live>>

\* the list is exhausted: _fetch_all_feeds returns (403-409)
LiveLoopEnd ==
    /\ fetch_pc = "loop"
    /\ feed_i > Len(RSS_URLS)
    /\ fetch_pc' = "done"
    /\ UNCHANGED <<RSS_URLS, RSS_ACTIVE, feed_i, at_begin, fetched, feed_errors>>
    /\ UNCHANGED <<pipeline, outcomes, others_live>>

\* a handler runs only while the pipeline task is suspended
HandlerRuns == fetch_pc \in {"idle", "await", "done"}

\* TelegramInterface.handle_rss_add and the reply handler (917-928,
\* 1214-1219): a feed not yet in the list is appended, active
AddFeed ==
    /\ HandlerRuns
    /\ Len(RSS_URLS) < MaxUrls
    /\ \E u \in Urls :
        /\ \A j \in 1..Len(RSS_URLS) : RSS_URLS[j] # u
        /\ RSS_URLS' = Append(RSS_URLS, u)
        /\ RSS_ACTIVE' = Append(RSS_ACTIVE, TRUE)
    /\ UNCHANGED <<feed_i, fetch_pc, at_begin, fetched, feed_errors>>
    /\ UNCHANGED <<pipeline, outcomes, others_live>>

\* a removal that drops the last flag, whichever feed is removed
PopLast(flags, j) == SubSeq(flags, 1, Len(flags) - 1)

\* confirm_rss_remove (756-758), handle_rss_remove (1236-1237): the flag at
\* the index is popped when the list of flags reaches that far
PopActive(flags, j) == IF j <= Len(flags) THEN Pop(flags, j) ELSE flags

\* TelegramInterface.confirm_rss_remove and handle_rss_remove: the entry is
\* popped from both lists
RemoveFeed ==
    /\ HandlerRuns
    /\ \E j \in 1..Len(RSS_URLS) :
        /\ RSS_URLS' = Pop(RSS_URLS, j)
        /\ RSS_ACTIVE' = PopActive(RSS_ACTIVE, j)
    /\ UNCHANGED <<feed_i, fetch_pc, at_begin, fetched, feed_errors>>
    /\ UNCHANGED <<pipeline, outcomes, others_live>>

\* BotController.toggle_rss_feed
ToggleFeed ==
    /\ HandlerRuns
    /\ \E j \in 1..Len(RSS_URLS), enable \in BOOLEAN :
        RSS_ACTIVE' = [RSS_ACTIVE EXCEPT ![j] = enable]
    /\ UNCHANGED <<RSS_URLS, feed_i, fetch_pc, at_begin, fetched, feed_errors>>
    /\ UNCHANGED <<pipeline, outcomes, others_live>>

\* the pipeline sleeps between two cycles with some lists of feeds
LiveInit ==
    /\ PipelineAtFetch
    /\ StorageIdle
    /\ IdentitiesIdle
    /\ PacingIdle
    /\ LifecycleIdle
    /\ ImagesIdle
    /\ BackendIdle
    /\ RetryIdle
    /\ CyclesIdle
    /\ PermitsIdle
    /\ TextsIdle
    /\ PrefilterIdle
    /\ ResourcesIdle
    /\ RSS_URLS \in FeedLists
    /\ RSS_ACTIVE \in [1..Len(RSS_URLS) -> BOOLEAN]
    /\ feed_i = 1
    /\ outcomes = << >>
    /\ fetch_pc = "idle"
    /\ at_begin = << >>
    /\ fetched = << >>
    /\ feed_errors = [u \in Urls |-> 0]

LiveNext ==
    \/ CycleBegin
    \/ LiveLoopHead
    \/ LiveFetchDone
    \/ LiveLoopEnd
    \/ AddFeed
    \/ RemoveFeed
    \/ ToggleFeed

SpecLiveFeeds == LiveInit /\ [][LiveNext]_vars

\* ------------------------------------------------------ the image of a post
\* _process_single_post, step 4, and _get_post_image.  Every collaborator
\* (_download_image, extract_primary_image, _find_image_in_html,
\* _generate_image) catches what is raised in it and returns None.
ImageModes == {"none", "original", "template", "required"}

\* the ways _download_image ends: a file that passed every check, or None
\* after a status other than 200, a content type that is no image, a
\* Content-Length outside the limits, too few pixels, or an exception
DownloadOutcomes == {"file", "status", "content_type", "size", "dimensions", "exception"}

\* _download_image: a path is returned for a file that passed every check
Accepted(outcome) == outcome = "file"

\* a resolver that turns to generation when mode 'original' found nothing
AfterOriginalFallback(post, cfg, src, got) ==
    IF src = "start"
    THEN IF post.image_url THEN "feed_download"
         ELSE IF post.link THEN "page_scrape" ELSE "generation"
    ELSE IF src = "page_scrape"
    THEN IF got THEN "page_download" ELSE "generation"
    ELSE IF got THEN "return_image"
    ELSE IF src = "generation" THEN "return_none" ELSE "generation"

\* _get_post_image in mode 'original' (753-768): what follows src, which
\* gave something (got) or nothing.  The page is scraped only when the feed
\* entry has no image_url; one download is made; nothing is generated.
AfterOriginal(post, cfg, src, got) ==
    IF src = "start"
    THEN IF post.image_url THEN "feed_download"
         ELSE IF post.link THEN "page_scrape" ELSE "return_none"
    ELSE IF src = "page_scrape"
    THEN IF got THEN "page_download" ELSE "return_none"
    ELSE IF got THEN "return_image" ELSE "return_none"

\* a resolver that generates whatever the configuration says
AfterTemplateGenerates(post, cfg, src, got) ==
    LET html == IF post.description THEN "html_search" ELSE "generation"
    IN  IF src = "start"
        THEN IF post.image_url THEN "feed_download" ELSE html
        ELSE IF src = "feed_download"
        THEN IF got THEN "return_image" ELSE html
        ELSE IF src = "html_search"
        THEN IF got THEN "html_download" ELSE "generation"
        ELSE IF src = "html_download"
        THEN IF got THEN "return_image" ELSE "generation"
        ELSE IF got THEN "return_image" ELSE "return_none"

\* _get_post_image in the other modes (770-789): the image_url of the feed
\* entry, then an image found in the description, then generation when
\* IMAGE_FALLBACK and ENABLE_IMAGE_GENERATION are set
AfterTemplate(post, cfg, src, got) ==
    LET gen == IF cfg.IMAGE_FALLBACK /\ cfg.ENABLE_IMAGE_GENERATION
               THEN "generation" ELSE "return_none"
        html == IF post.description THEN "html_search" ELSE gen
    IN  IF src = "start"
        THEN IF post.image_url THEN "feed_download" ELSE html
        ELSE IF src = "feed_download"
        THEN IF got THEN "return_image" ELSE html
        ELSE IF src = "html_search"
        THEN IF got THEN "html_download" ELSE gen
        ELSE IF src = "html_download"
        THEN IF got THEN "return_image" ELSE gen
        ELSE IF got THEN "return_image" ELSE "return_none"

\* _get_post_image: what follows src
After(src, got) ==
    IF image_cfg.IMAGE_SOURCE = "none" THEN "return_none"
    ELSE IF image_cfg.IMAGE_SOURCE = "original"
    THEN AfterOriginal(image_post, image_cfg, src, got)
    ELSE AfterTemplate(image_post, image_cfg, src, got)

\* a step 4 that gives up every post that got no image
PublishOnlyWithImage(mode, has_image) == has_image

\* _process_single_post (531-538): the post goes on to the publish call
\* unless no image came back and the mode is 'required'
PublishAfter(mode, has_image) == has_image \/ mode # "required"

\* the step of _get_post_image after src, up to the next await or, when
\* it returns, up to the publish call of _process_single_post
Proceed(src, got) ==
    LET next == After(src, got)
    IN  IF next = "return_image"
        THEN /\ resolved' = src
             /\ published' = src
             /\ image_pc' = "send"
             /\ UNCHANGED tried
        ELSE IF next = "return_none"
        THEN /\ resolved' = "nothing"
             /\ UNCHANGED tried
             /\ IF PublishAfter(image_cfg.IMAGE_SOURCE, FALSE)
                THEN /\ published' = "text"
                     /\ image_pc' = "send"
                ELSE /\ published' = "no"
                     /\ image_pc' = "skipped"
        ELSE /\ image_pc' = next
             /\ tried' = Append(tried, next)
             /\ UNCHANGED <<resolved, published>>

\* step 4 is reached
ImageBegin ==
    /\ image_pc = "start"
    /\ Proceed("start", FALSE)
    /\ UNCHANGED <<image_cfg, image_post>>
    /\ UNCHANGED <<pipeline, others_images>>

\* _download_image returns
DownloadReturns ==
    /\ image_pc \in {"feed_download", "page_download", "html_download"}
    /\ \E outcome \in DownloadOutcomes : Proceed(image_pc, Accepted(outcome))
    /\ UNCHANGED <<image_cfg, image_post>>
    /\ UNCHANGED <<pipeline, others_images>>

\* extract_primary_image or _find_image_in_html returns, a URL or None
SearchReturns ==
    /\ image_pc \in {"page_scrape", "html_search"}
    /\ \E found \in BOOLEAN : Proceed(image_pc, found)
    /\ UNCHANGED <<image_cfg, image_post>>
    /\ UNCHANGED <<pipeline, others_images>>

\* _generate_image_with_semaphore returns, a path or None
GenerationReturns ==
    /\ image_pc = "generation"
    /\ \E made \in BOOLEAN : Proceed(image_pc, made)
    /\ UNCHANGED <<image_cfg, image_post>>
    /\ UNCHANGED <<pipeline, others_images>>

\* a post whose content is ready, with or without image_url and
\* description (a post of the batch always has a link), under any
\* configuration
ImagesInit ==
    /\ PipelineAtFetch
    /\ FeedsIdle
    /\ StorageIdle
    /\ IdentitiesIdle
    /\ PacingIdle
    /\ LifecycleIdle
    /\ LiveIdle
    /\ BackendIdle
    /\ RetryIdle
    /\ CyclesIdle
    /\ PermitsIdle
    /\ TextsIdle
    /\ PrefilterIdle
    /\ ResourcesIdle
    /\ image_cfg \in [IMAGE_SOURCE : ImageModes, IMAGE_FALLBACK : BOOLEAN,
                      ENABLE_IMAGE_GENERATION : BOOLEAN]
    /\ image_post \in [image_url : BOOLEAN, link : {TRUE}, description : BOOLEAN]
    /\ image_pc = "start"
    /\ tried = << >>
    /\ resolved = "nothing"
    /\ published = "no"

ImagesNext ==
    \/ ImageBegin
    \/ DownloadReturns
    \/ SearchReturns
    \/ GenerationReturns

SpecImages == ImagesInit /\ [][ImagesNext]_vars

\* ------------------------------------------------------ the transform backend
\* AsyncYandexGPT as _process_post_content uses it, post after post.
YAGPT_ERROR_THRESHOLD == 5
MaxCalls == 6

\* the ways a call of enhance() that reached the request ends: a rewrite,
\* a status other than 200 (117-120), a timeout (178-180), an exception
\* (181-183); all but the first log the error and return None
EnhanceEndings == {"rewrite", "status", "timeout", "exception"}

\* the calls of enhance() so far that ended with an error of the backend
RECURSIVE BackendErrors(_)
BackendErrors(log) ==
    IF log = << >> THEN 0
    ELSE (IF Head(log) = "rewrite" THEN 0 ELSE 1) + BackendErrors(Tail(log))

\* AsyncYandexGPT.is_available
IsAvailable == active /\ error_count < YAGPT_ERROR_THRESHOLD

\* _process_post_content (635-652): use_ai holds (ENABLE_YAGPT is set in
\* this part) and enhance() is awaited
BackendCalled ==
    /\ backend_pc = "idle"
    /\ Len(enhance_log) < MaxCalls
    /\ active
    /\ IsAvailable
    /\ backend_pc' = "enhance"
    /\ UNCHANGED <<active, error_count, enhance_log>>
    /\ UNCHANGED <<pipeline, others_backend>>

\* enhance() returns (69-183): no path of it writes error_count or active,
\* and every exception is caught inside it
BackendReturns ==
    /\ backend_pc = "enhance"
    /\ \E outcome \in EnhanceEndings :
        enhance_log' = Append(enhance_log, outcome)
    /\ backend_pc' = "idle"
    /\ UNCHANGED <<active, error_count>>
    /\ UNCHANGED <<pipeline, others_backend>>

\* AsyncYandexGPT.__init__: active as the configuration has it, no error
BackendInit ==
    /\ PipelineAtFetch
    /\ FeedsIdle
    /\ StorageIdle
    /\ IdentitiesIdle
    /\ PacingIdle
    /\ LifecycleIdle
    /\ LiveIdle
    /\ ImagesIdle
    /\ RetryIdle
    /\ CyclesIdle
    /\ PermitsIdle
    /\ TextsIdle
    /\ PrefilterIdle
    /\ ResourcesIdle
    /\ active \in BOOLEAN
    /\ error_count = 0
    /\ backend_pc = "idle"
    /\ enhance_log = << >>

BackendNext ==
    \/ BackendCalled
    \/ BackendReturns

SpecBackend == BackendInit /\ [][BackendNext]_vars

\* ------------------------------------------------- attempts of fetch_feed
\* AsyncRSSParser.__init__: self.max_retries
max_retries == 3
MaxFetchErrors == 4

\* how one request attempt of fetch_feed ends: the feed parsed (98), a
\* status other than 200 or a body that does not parse (92-94, 98), the
\* ClientOSError whose text has APPLICATION_DATA_AFTER_CLOSE_NOTIFY (101),
\* any other ClientOSError, a refused connection among them (104-107), a
\* timeout (asyncio.TimeoutError, 118-121), the RuntimeError of a closed
\* session (109-112), any other exception (113-121)
AttemptOutcomes ==
    {"content", "no_content", "close_notify", "connection", "timeout",
     "session_closed", "other"}

\* the handlers of fetch_feed (100-121): which outcome of an attempt leads
\* to the sleep before another attempt
Retries(outcome, n) == outcome = "close_notify" /\ n < max_retries

\* the handlers that count an error of the feed (105, 114, 119)
CountsError(outcome, n) ==
    /\ ~Retries(outcome, n)
    /\ outcome \in {"close_notify", "connection", "timeout", "other"}

\* fetch_feed is called (63-79); a feed whose status is off returns at once
\* (65-66), a closed session is recreated by the callback (69-75) or None is
\* returned when there is none
FetchFeedCalled ==
    /\ retry_pc \in {"idle", "done"}
    /\ attempt_log' = << >>
    /\ \E status \in BOOLEAN, closed \in BOOLEAN, callback \in BOOLEAN :
        IF ~status \/ (closed /\ ~callback)
        THEN /\ retry_pc' = "done"
             /\ attempt' = 0
             /\ fetch_ret' = "null"
        ELSE /\ retry_pc' = "request"
             /\ attempt' = 1
             /\ fetch_ret' = "none"
    /\ UNCHANGED parser_errors
    /\ UNCHANGED <<pipeline, others_retry>>

\* one pass of the loop body (79-121) up to its return or its sleep
AttemptEnds ==
    /\ retry_pc = "request"
    /\ \E outcome \in AttemptOutcomes :
        /\ CountsError(outcome, attempt) => parser_errors < MaxFetchErrors
        /\ attempt_log' = Append(attempt_log, outcome)
        /\ parser_errors' =
            IF CountsError(outcome, attempt) THEN parser_errors + 1
            ELSE parser_errors
        /\ IF Retries(outcome, attempt)
           THEN /\ retry_pc' = "backoff"
                /\ fetch_ret' = "none"
           ELSE /\ retry_pc' = "done"
                /\ fetch_ret' = IF outcome = "content" THEN "content"
                                ELSE "null"
    /\ UNCHANGED attempt
    /\ UNCHANGED <<pipeline, others_retry>>

\* the sleep of retry_delay * attempt ends (103) and the loop goes on (79)
BackoffEnds ==
    /\ retry_pc = "backoff"
    /\ retry_pc' = "request"
    /\ attempt' = attempt + 1
    /\ UNCHANGED <<attempt_log, fetch_ret, parser_errors>>
    /\ UNCHANGED <<pipeline, others_retry>>

\* refresh_status (57-61): the count of errors of the feed is dropped
RefreshStatus ==
    /\ parser_errors > 0
    /\ parser_errors' = 0
    /\ UNCHANGED <<attempt, retry_pc, attempt_log, fetch_ret>>
    /\ UNCHANGED <<pipeline, others_retry>>

\* AsyncRSSParser.__init__ (35-51)
RetryInit ==
    /\ PipelineAtFetch
    /\ FeedsIdle
    /\ StorageIdle
    /\ IdentitiesIdle
    /\ PacingIdle
    /\ LifecycleIdle
    /\ LiveIdle
    /\ ImagesIdle
    /\ BackendIdle
    /\ CyclesIdle
    /\ PermitsIdle
    /\ TextsIdle
    /\ PrefilterIdle
    /\ ResourcesIdle
    /\ attempt = 0
    /\ retry_pc = "idle"
    /\ attempt_log = << >>
    /\ fetch_ret = "none"
    /\ parser_errors = 0

RetryNext ==
    \/ FetchFeedCalled
    \/ AttemptEnds
    \/ BackoffEnds
    \/ RefreshStatus

SpecRetry == RetryInit /\ [][RetryNext]_vars

\* ------------------------------------------- cycles of _rss_processing_loop
MaxCycleErrors == 2

\* the awaits of the loop: the fetch phase (322), the processing phase
\* (323), the sleep between cycles (334), the sleep after an error (341)
CycleAwaits == {"fetch", "process", "sleep", "error_sleep"}

\* the task of the loop exists and has not ended
LoopAlive == cycle_pc \notin {"none", "ended"}

\* _rss_processing_loop, 339-341: where the loop goes when an exception
\* other than the cancellation is raised inside the try of a cycle
HandlerBreaks == "ended"

AfterException == "error_sleep"

\* _rss_processing_loop, 330: whether this pass of the cycle saves
NeverSaves(due) == FALSE

SavesWhenDue(due) == due

\* an exception raised inside the cycle (318-334) is caught at 339
CycleRaises ==
    /\ cycle_errors < MaxCycleErrors
    /\ cycle_errors' = cycle_errors + 1
    /\ cycle_pc' = AfterException
    /\ last_cycle' = "error"
    /\ UNCHANGED <<is_running, cancel_requested, save_due>>

\* the cancellation is delivered at the await the task is suspended at:
\* inside the try it is caught at 336 and the loop breaks, inside the
\* handler's sleep (341) it leaves the coroutine; the task ends either way
CancelDelivered ==
    /\ cancel_requested
    /\ cycle_pc' = "ended"
    /\ cancel_requested' = FALSE
    /\ UNCHANGED <<is_running, save_due, cycle_errors, last_cycle>>

\* start() creates the task (169-175) and the task runs up to its first
\* test of is_running: last_save_time = time.time() (314)
LoopStart ==
    /\ cycle_pc \in {"none", "ended"}
    /\ ~is_running
    /\ is_running' = TRUE
    /\ cycle_pc' = "head"
    /\ save_due' = FALSE
    /\ cancel_requested' = FALSE
    /\ UNCHANGED <<cycle_errors, last_cycle>>
    /\ UNCHANGED <<pipeline_data, others_cycles>>

\* while self.is_running (316), then 317-322 up to the await of the fetch
LoopHead ==
    /\ cycle_pc = "head"
    /\ IF is_running
       THEN /\ cycle_pc' = "fetch"
            /\ last_cycle' = "running"
       ELSE /\ cycle_pc' = "ended"
            /\ UNCHANGED last_cycle
    /\ UNCHANGED <<is_running, cancel_requested, save_due, cycle_errors>>
    /\ UNCHANGED <<pipeline_data, others_cycles>>

\* await self._fetch_all_feeds() returns or raises (322)
FetchPhaseEnds ==
    /\ cycle_pc = "fetch"
    /\ \/ CancelDelivered
       \/ /\ ~cancel_requested
          /\ \/ CycleRaises
             \/ /\ cycle_pc' = "process"
                /\ UNCHANGED <<is_running, cancel_requested, save_due,
                               cycle_errors, last_cycle>>
    /\ UNCHANGED <<pipeline_data, others_cycles>>

\* await self._process_new_posts(new_posts) returns or raises (323), and
\* the rest of the try runs without an await up to the sleep: the update of
\* the statistics (326-327), the test of the interval and the save (330-332)
ProcessPhaseEnds ==
    /\ cycle_pc = "process"
    /\ \/ CancelDelivered
       \/ /\ ~cancel_requested
          /\ \/ CycleRaises
             \/ /\ ~SavesWhenDue(save_due)
                /\ cycle_pc' = "sleep"
                /\ last_cycle' = "completed"
                /\ UNCHANGED <<is_running, cancel_requested, save_due,
                               cycle_errors>>
             \/ /\ SavesWhenDue(save_due)
                \* save_state returns: the file is written, or the error
                \* is logged inside it (state_manager.py 249-252); 332 runs
                \* in both cases
                /\ \E written \in BOOLEAN :
                    /\ ~written => cycle_errors < MaxCycleErrors
                    /\ cycle_errors' =
                        IF written THEN cycle_errors ELSE cycle_errors + 1
                    /\ last_cycle' = IF written THEN "saved" ELSE "save_failed"
                /\ save_due' = FALSE
                /\ cycle_pc' = "sleep"
                /\ UNCHANGED <<is_running, cancel_requested>>
    /\ UNCHANGED <<pipeline_data, others_cycles>>

\* await asyncio.sleep(CHECK_INTERVAL) ends (334)
CycleSleepEnds ==
    /\ cycle_pc = "sleep"
    /\ \/ CancelDelivered
       \/ /\ ~cancel_requested
          /\ cycle_pc' = "head"
          /\ UNCHANGED <<is_running, cancel_requested, save_due,
                         cycle_errors, last_cycle>>
    /\ UNCHANGED <<pipeline_data, others_cycles>>

\* await asyncio.sleep(min(60, CHECK_INTERVAL * 2)) ends (341)
ErrorSleepEnds ==
    /\ cycle_pc = "error_sleep"
    /\ \/ CancelDelivered
       \/ /\ ~cancel_requested
          /\ cycle_pc' = "head"
          /\ UNCHANGED <<is_running, cancel_requested, save_due,
                         cycle_errors, last_cycle>>
    /\ UNCHANGED <<pipeline_data, others_cycles>>

\* time passes while the task is suspended: more than 300 s since
\* last_save_time
IntervalElapses ==
    /\ cycle_pc \in CycleAwaits
    /\ ~save_due
    /\ save_due' = TRUE
    /\ UNCHANGED <<is_running, cycle_pc, cancel_requested, cycle_errors,
                   last_cycle>>
    /\ UNCHANGED <<pipeline_data, others_cycles>>

\* stop() while the task is suspended (198-206): the flag is cleared and the
\* task cancelled
StopRequested ==
    /\ is_running
    /\ cycle_pc \in CycleAwaits
    /\ is_running' = FALSE
    /\ cancel_requested' = TRUE
    /\ UNCHANGED <<cycle_pc, save_due, cycle_errors, last_cycle>>
    /\ UNCHANGED <<pipeline_data, others_cycles>>

\* BotController.__init__ (43-49): no task, the flag off
CyclesInit ==
    /\ is_running = FALSE
    /\ pc = "idle"
    /\ new_posts = << >>
    /\ idx = 1
    /\ skipped_count = 0
    /\ duplicate_count = 0
    /\ result = None
    /\ processed_content = None
    /\ image_path = FALSE
    /\ success = FALSE
    /\ sent_entries = << >>
    /\ sent_hashes = << >>
    /\ state_file = NoFile
    /\ stats_errors = 0
    /\ ENABLE_YAGPT = FALSE
    /\ IMAGE_SOURCE = "none"
    /\ loaded = {}
    /\ cleared = FALSE
    /\ FeedsIdle
    /\ StorageIdle
    /\ IdentitiesIdle
    /\ PacingIdle
    /\ LifecycleIdle
    /\ LiveIdle
    /\ ImagesIdle
    /\ BackendIdle
    /\ RetryIdle
    /\ PermitsIdle
    /\ TextsIdle
    /\ PrefilterIdle
    /\ ResourcesIdle
    /\ cycle_pc = "none"
    /\ cancel_requested = FALSE
    /\ save_due = FALSE
    /\ cycle_errors = 0
    /\ last_cycle = "none"

CyclesNext ==
    \/ LoopStart
    \/ LoopHead
    \/ FetchPhaseEnds
    \/ ProcessPhaseEnds
    \/ CycleSleepEnds
    \/ ErrorSleepEnds
    \/ IntervalElapses
    \/ StopRequested

SpecCycles == CyclesInit /\ [][CyclesNext]_vars

\* the event loop resumes a task whose await has completed, and the sleeps
\* end; a task that sleeps again and again has at some point slept for more
\* than 300 s.  Nothing obliges stop() or start() to be called.
CyclesFairness ==
    /\ WF_vars(LoopHead)
    /\ WF_vars(FetchPhaseEnds)
    /\ WF_vars(ProcessPhaseEnds)
    /\ WF_vars(CycleSleepEnds)
    /\ WF_vars(ErrorSleepEnds)
    /\ SF_vars(IntervalElapses)

SpecCyclesFair == SpecCycles /\ CyclesFairness

\* ------------------------------------------------------ generation permits
MaxPermits == 3
MaxJobs == 4

\* the generation jobs inside the try of _generate_image_with_semaphore
InFlight == IF job_pc = "generate" THEN 1 ELSE 0

\* start() (162-175): a new semaphore with MAX_CONCURRENT_IMAGE_TASKS permits
\* replaces the one of the attribute, and the loop task is created.  A task
\* cancelled by stop() that has not been resumed yet is still suspended
\* inside its job.
PermitStart ==
    /\ ~is_running
    /\ is_running' = TRUE
    /\ sem_value' = sem_initial
    /\ UNCHANGED <<sem_initial, job_pc, job_cancelled, jobs_done>>
    /\ UNCHANGED <<pipeline_data, others_permits>>

\* stop() (198-206): the flag is cleared and the loop task cancelled; the
\* cancellation reaches the task when the event loop resumes it
PermitStop ==
    /\ is_running
    /\ is_running' = FALSE
    /\ job_cancelled' = (job_pc = "generate")
    /\ UNCHANGED <<sem_initial, sem_value, job_pc, jobs_done>>
    /\ UNCHANGED <<pipeline_data, others_permits>>

\* the loop reaches _generate_image_with_semaphore (787, 857-865): an empty
\* title returns None (859-860), otherwise a permit is acquired and
\* _generate_image awaited.  The task created by start() runs after the
\* task that was cancelled before it has been resumed.
JobCalled ==
    /\ is_running
    /\ job_pc = "none"
    /\ ~job_cancelled
    /\ jobs_done < MaxJobs
    /\ \E title \in BOOLEAN :
        IF title
        THEN /\ sem_value > 0
             /\ sem_value' = sem_value - 1
             /\ job_pc' = "generate"
             /\ UNCHANGED jobs_done
        ELSE /\ jobs_done' = jobs_done + 1
             /\ UNCHANGED <<sem_value, job_pc>>
    /\ UNCHANGED <<sem_initial, job_cancelled>>
    /\ UNCHANGED <<is_running, pipeline_data, others_permits>>

\* _generate_image returns a path or None (870-890, every Exception is
\* caught inside it), or the cancellation is raised at its await; the
\* finally block releases (866-867)
JobEnds ==
    /\ job_pc = "generate"
    /\ job_pc' = "none"
    /\ job_cancelled' = FALSE
    /\ sem_value' = sem_value + 1
    /\ jobs_done' = IF jobs_done < MaxJobs THEN jobs_done + 1 ELSE jobs_done
    /\ UNCHANGED sem_initial
    /\ UNCHANGED <<is_running, pipeline_data, others_permits>>

\* BotController.__init__ (43-45): no semaphore, the flag off
PermitsInit ==
    /\ is_running = FALSE
    /\ pc = "idle"
    /\ new_posts = << >>
    /\ idx = 1
    /\ skipped_count = 0
    /\ duplicate_count = 0
    /\ result = None
    /\ processed_content = None
    /\ image_path = FALSE
    /\ success = FALSE
    /\ sent_entries = << >>
    /\ sent_hashes = << >>
    /\ state_file = NoFile
    /\ stats_errors = 0
    /\ ENABLE_YAGPT = FALSE
    /\ IMAGE_SOURCE = "template"
    /\ loaded = {}
    /\ cleared = FALSE
    /\ FeedsIdle
    /\ StorageIdle
    /\ IdentitiesIdle
    /\ PacingIdle
    /\ LifecycleIdle
    /\ LiveIdle
    /\ ImagesIdle
    /\ BackendIdle
    /\ RetryIdle
    /\ CyclesIdle
    /\ TextsIdle
    /\ PrefilterIdle
    /\ ResourcesIdle
    /\ sem_initial \in 1..MaxPermits
    /\ sem_value = 0
    /\ job_pc = "none"
    /\ job_cancelled = FALSE
    /\ jobs_done = 0

PermitsNext ==
    \/ PermitStart
    \/ PermitStop
    \/ JobCalled
    \/ JobEnds

SpecPermits == PermitsInit /\ [][PermitsNext]_vars

\* --------------------------------------------------- texts of any length
MaxLen == 4

\* texts of letters and spaces, up to MaxLen + 1 characters
Texts == UNION {[1..n -> {"a", " "}] : n \in 0..(MaxLen + 1)}

\* the limits of the configuration (MAX_TITLE_LENGTH, MAX_DESC_LENGTH),
\* scaled to the texts
Limits == 1..MaxLen

\* _process_post_content (643-663) hands a title or a description, its own
\* or the one the backend returned, to _truncate_text with the limit of the
\* configuration
TruncateCalled ==
    /\ trunc_pc \in {"idle", "returned"}
    /\ trunc_text' \in Texts
    /\ trunc_max' \in Limits
    /\ trunc_out' = << >>
    /\ trunc_pc' = "called"
    /\ UNCHANGED <<pipeline, others_texts>>

\* _truncate_text returns (734-745)
TruncateReturns ==
    /\ trunc_pc = "called"
    /\ trunc_out' = TruncateText(trunc_text, trunc_max)
    /\ trunc_pc' = "returned"
    /\ UNCHANGED <<trunc_text, trunc_max>>
    /\ UNCHANGED <<pipeline, others_texts>>

TextsInit ==
    /\ PipelineAtFetch
    /\ FeedsIdle
    /\ StorageIdle
    /\ IdentitiesIdle
    /\ PacingIdle
    /\ LifecycleIdle
    /\ LiveIdle
    /\ ImagesIdle
    /\ BackendIdle
    /\ RetryIdle
    /\ CyclesIdle
    /\ PermitsIdle
    /\ PrefilterIdle
    /\ ResourcesIdle
    /\ trunc_text = << >>
    /\ trunc_max = 0
    /\ trunc_out = << >>
    /\ trunc_pc = "idle"

TextsNext ==
    \/ TruncateCalled
    \/ TruncateReturns

SpecTexts == TextsInit /\ [][TextsNext]_vars

\* ------------------------------------------- pre-filter key and record key
MaxRecorded == 2

\* what _fetch_all_feeds can put into the batch: a dict with or without the
\* fields link and title, or a bare link string (a field that is not there
\* is shown empty)
Candidates ==
    {[kind |-> "dict", fields |-> f,
      link |-> IF "link" \in f THEN l ELSE << >>,
      title |-> IF "title" \in f THEN t ELSE << >>] :
        f \in SUBSET {"link", "title"},
        l \in {<< >>, <<"h", "1">>, <<"h", "2">>},
        t \in {<< >>, <<"A">>}}
    \cup {[kind |-> "str", fields |-> {}, link |-> l, title |-> << >>] :
            l \in {<< >>, <<"h", "1">>, <<"h", "2">>}}

\* no post
NoPost == [some |-> FALSE, link |-> << >>, title |-> << >>]

\* BotController._quick_normalize (481-490)
QuickNormalized(c) ==
    IF c.link # << >>
    THEN [some |-> TRUE, link |-> c.link,
          title |-> IF c.kind = "dict" THEN c.title ELSE << >>]
    ELSE NoPost

\* a normalisation that takes the bare link for the title as well
NormalizedTitled(c) ==
    [some |-> TRUE, link |-> c.link,
     title |-> IF c.kind = "dict" THEN c.title ELSE c.link]

\* BotController._normalize_post (571-588): a string becomes a post with an
\* empty title, a dict gets the fields it lacks, empty
Normalized(c) ==
    [some |-> TRUE, link |-> c.link,
     title |-> IF c.kind = "dict" THEN c.title ELSE << >>]

\* _process_new_posts (430-448): the next post of the batch is normalized
\* quickly, its identity derived and looked up
TakePost ==
    /\ filter_pc = "idle"
    /\ \E c \in Candidates :
        LET temp_post == QuickNormalized(c)
            post_id == GeneratePostId(temp_post)
        IN  /\ cand' = c
            /\ IF ~temp_post.some
               THEN /\ filter_outcome' = "skipped"
                    /\ UNCHANGED <<filter_pc, filter_key>>
               ELSE /\ filter_key' = post_id
                    /\ IF IsEntrySent(post_id)
                       THEN /\ filter_outcome' = "duplicate"
                            /\ UNCHANGED filter_pc
                       ELSE /\ filter_outcome' = "passed"
                            /\ filter_pc' = "process"
    /\ UNCHANGED record_key
    /\ UNCHANGED <<pipeline, others_prefilter>>

\* _process_single_post (510-552) returns: the post is normalized, its
\* identity derived and put into the post (514-520); when the publish call
\* returned true, add_sent_entry stores that identity (548, 595-597)
ProcessPost ==
    /\ filter_pc = "process"
    /\ LET normalized_post == Normalized(cand)
           post_id == GeneratePostId(normalized_post)
       IN  \E ok \in {FALSE, Len(sent_entries) < MaxRecorded} :
            IF ok
            THEN /\ record_key' = post_id
                 /\ sent_entries' = Put(sent_entries, post_id)
                 /\ filter_outcome' = "published"
            ELSE /\ filter_outcome' = "failed"
                 /\ UNCHANGED <<record_key, sent_entries>>
    /\ filter_pc' = "idle"
    /\ UNCHANGED <<cand, filter_key>>
    /\ UNCHANGED <<is_running, pc, new_posts, idx, counters, locals,
                   sent_hashes, state_file, stats_errors, config, history>>
    /\ UNCHANGED others_prefilter

PrefilterInit ==
    /\ PipelineAtFetch
    /\ FeedsIdle
    /\ StorageIdle
    /\ IdentitiesIdle
    /\ PacingIdle
    /\ LifecycleIdle
    /\ LiveIdle
    /\ ImagesIdle
    /\ BackendIdle
    /\ RetryIdle
    /\ CyclesIdle
    /\ PermitsIdle
    /\ TextsIdle
    /\ ResourcesIdle
    /\ cand = << >>
    /\ filter_pc = "idle"
    /\ filter_key = << >>
    /\ record_key = << >>
    /\ filter_outcome = "none"

PrefilterNext ==
    \/ TakePost
    \/ ProcessPost

SpecPrefilter == PrefilterInit /\ [][PrefilterNext]_vars

\* ------------------------------------- session and executor over start, stop
MaxStops == 2
MaxLeaked == 2

\* BotController._safe_shutdown (231-238) entered with the session in state
\* s: an open session is closed, and the call either is suspended in
\* session.close() or runs straight on to image_executor.shutdown
ReleaseResources(s) ==
    \/ /\ s = "open"
       /\ session' = "closed"
       /\ closing < MaxStops
       /\ closing' = closing + 1
       /\ UNCHANGED executor_down
    \/ /\ session' = (IF s = "open" THEN "closed" ELSE s)
       /\ executor_down' = TRUE
       /\ UNCHANGED closing

\* BotController.start (160-184) returns true: a new session is put in
\* place of whatever self.session named, the tasks are created
StartCalled ==
    /\ ~is_running
    /\ leaked' = leaked + (IF session = "open" THEN 1 ELSE 0)
    /\ leaked' <= MaxLeaked
    /\ session' = "open"
    /\ is_running' = TRUE
    /\ started_ok' = TRUE
    /\ refresh_pc' = "sleep"
    /\ UNCHANGED <<executor_down, gathering, closing>>
    /\ UNCHANGED <<pipeline_data, others_resources>>

\* BotController.start (160-168, 185-188) fails before is_running is set,
\* with or without the new session made, releases the resources and
\* returns false
StartFails ==
    /\ ~is_running
    /\ \E made \in BOOLEAN :
        /\ leaked' = leaked + (IF made /\ session = "open" THEN 1 ELSE 0)
        /\ leaked' <= MaxLeaked
        /\ ReleaseResources(IF made THEN "open" ELSE session)
    /\ UNCHANGED <<gathering, refresh_pc, started_ok>>
    /\ UNCHANGED <<pipeline, others_resources>>

\* BotController.stop (191-217): is_running is cleared, the tasks are
\* cancelled and the call waits for them
StopCalled ==
    /\ is_running
    /\ gathering + closing < MaxStops
    /\ is_running' = FALSE
    /\ started_ok' = FALSE
    /\ refresh_pc' = "sleep"
    /\ gathering' = gathering + 1
    /\ UNCHANGED <<session, executor_down, closing, leaked>>
    /\ UNCHANGED <<pipeline_data, others_resources>>

\* stop (216-219): the cancelled tasks have ended, _safe_shutdown begins
\* with the session that self.session names now
GatherEnds ==
    /\ gathering > 0
    /\ gathering' = gathering - 1
    /\ ReleaseResources(session)
    /\ UNCHANGED <<refresh_pc, leaked, started_ok>>
    /\ UNCHANGED <<pipeline, others_resources>>

\* _safe_shutdown (234-238): session.close() has returned, the executor is
\* shut down
CloseEnds ==
    /\ closing > 0
    /\ closing' = closing - 1
    /\ executor_down' = TRUE
    /\ UNCHANGED <<session, gathering, refresh_pc, leaked, started_ok>>
    /\ UNCHANGED <<pipeline, others_resources>>

\* _session_refresh_loop (243-250): the hour is over, the session is closed;
\* the new one is made at once or after close() was suspended
RefreshBegins ==
    /\ is_running
    /\ refresh_pc = "sleep"
    /\ session # "none"
    /\ \/ /\ session = "open"
          /\ session' = "closed"
          /\ refresh_pc' = "closing"
       \/ /\ session' = "open"
          /\ UNCHANGED refresh_pc
    /\ UNCHANGED <<executor_down, gathering, closing, leaked, started_ok>>
    /\ UNCHANGED <<pipeline, others_resources>>

\* _session_refresh_loop (250-257): close() has returned in a task that was
\* not cancelled, the new session is put in place
RefreshEnds ==
    /\ refresh_pc = "closing"
    /\ session' = "open"
    /\ refresh_pc' = "sleep"
    /\ UNCHANGED <<executor_down, gathering, closing, leaked, started_ok>>
    /\ UNCHANGED <<pipeline, others_resources>>

\* _fetch_all_feeds (364-365), _recreate_session (143-158): the fetch phase
\* of a running controller finds the session closed and makes a new one
RecreateSession ==
    /\ is_running
    /\ refresh_pc = "sleep"
    /\ session = "closed"
    /\ session' = "open"
    /\ UNCHANGED <<executor_down, gathering, closing, refresh_pc, leaked,
                   started_ok>>
    /\ UNCHANGED <<pipeline, others_resources>>

ResourcesInit ==
    /\ is_running = FALSE
    /\ pc = "idle"
    /\ new_posts = << >>
    /\ idx = 1
    /\ skipped_count = 0
    /\ duplicate_count = 0
    /\ result = None
    /\ processed_content = None
    /\ image_path = FALSE
    /\ success = FALSE
    /\ sent_entries = << >>
    /\ sent_hashes = << >>
    /\ state_file = NoFile
    /\ stats_errors = 0
    /\ ENABLE_YAGPT = FALSE
    /\ IMAGE_SOURCE = "none"
    /\ loaded = {}
    /\ cleared = FALSE
    /\ FeedsIdle
    /\ StorageIdle
    /\ IdentitiesIdle
    /\ PacingIdle
    /\ LifecycleIdle
    /\ LiveIdle
    /\ ImagesIdle
    /\ BackendIdle
    /\ RetryIdle
    /\ CyclesIdle
    /\ PermitsIdle
    /\ TextsIdle
    /\ PrefilterIdle
    /\ session = "none"
    /\ executor_down = FALSE
    /\ gathering = 0
    /\ closing = 0
    /\ refresh_pc = "sleep"
    /\ leaked = 0
    /\ started_ok = FALSE

ResourcesNext ==
    \/ StartCalled
    \/ StartFails
    \/ StopCalled
    \/ GatherEnds
    \/ CloseEnds
    \/ RefreshBegins
    \/ RefreshEnds
    \/ RecreateSession

SpecResources == ResourcesInit /\ [][ResourcesNext]_vars

\* ------------------------------------------------------------------ claims
\* C1: a post whose identity is recorded does not get past the pre-filter:
\* whenever the pipeline stands between the pre-filter and the end of the
\* processing of a post, the identity of that post is not in sent_entries;
\* and the recording step leaves exactly one key for the post it records.
IdempotentDedup ==
    [][ /\ (pc' \in {"delay", "content", "enhance", "quality", "image", "send",
                    "record"}
              => PostId(new_posts'[idx']) \notin Range(sent_entries'))
        /\ (pc = "record" /\ pc' = "head"
              => Cardinality({i \in 1..Len(sent_entries') :
                                sent_entries'[i] = PostId(Current)}) = 1) ]_vars

\* C1: the second entry of a batch is the post that the first entry was, the
\* first was published and recorded in this run, and the pre-filter is about
\* to look at the second
IdempotentDedupWitness ==
    /\ pc = "head"
    /\ Len(new_posts) = 2
    /\ idx = 2
    /\ new_posts[1] = new_posts[2]
    /\ skipped_count = 0
    /\ duplicate_count = 0
    /\ IsEntrySent(PostId(Current))
    /\ PostId(Current) \notin loaded
    /\ ~cleared

\* C2: a step of the running process that adds a key to sent_entries is the
\* recording step of a post whose publish call returned true, and the key
\* is the identity of that post; a key that appears otherwise was read from
\* the state file when the process started again.
RecordAfterPublish ==
    [][ \A k \in Range(sent_entries') \ Range(sent_entries) :
            \/ pc = "record" /\ success /\ k = PostId(Current)
            \/ pc' = "idle" /\ k \in Range(state_file.sent_entries) ]_vars

\* C2: a batch of one post, published and recorded in this run
RecordAfterPublishWitness ==
    /\ pc = "head"
    /\ Len(new_posts) = 1
    /\ idx = 2
    /\ skipped_count = 0
    /\ duplicate_count = 0
    /\ IsEntrySent(PostId(new_posts[1]))
    /\ PostId(new_posts[1]) \notin loaded

\* C3: the step that records a published post leaves the state file holding
\* the store as it is after the recording.
FlushAfterPublish ==
    [][ pc = "record" /\ pc' = "head"
          => state_file' = File(sent_entries', sent_hashes') ]_vars

\* C4: when the process is killed and started again, every identity that
\* was in sent_entries at the kill is in sent_entries after the restart.
CrashDurability ==
    [][ Restart => Range(sent_entries) \subseteq Range(sent_entries') ]_vars

\* C5: in a run in which the history has not been cleared, the pipeline
\* never stands between the pre-filter and the end of the processing of a
\* post whose identity the state file held when the process started.
DuplicateAcrossRestart ==
    ~cleared /\ InProcessing => PostId(Current) \notin loaded

\* C5: the feeds delivered a post that the state file held at the start,
\* and the pre-filter has passed it over
DuplicateAcrossRestartWitness ==
    /\ pc = "head"
    /\ idx = 2
    /\ duplicate_count = 1
    /\ PostId(new_posts[1]) \in loaded
    /\ ~cleared

\* C5 as stated, for every run: the pipeline never stands between the
\* pre-filter and the end of the processing of a post whose identity the
\* state file held when the process started.
DuplicateAcrossRestartAnyRun ==
    InProcessing => PostId(Current) \notin loaded

\* C6: no publish call is made with a content whose fingerprint is in
\* sent_hashes.
SecondaryDedup ==
    pc = "send" => ~IsHashSent(StateContentHash(processed_content))

\* C7: the step that rejects a post, for a title or description that is too
\* short or for a rewrite with a denylisted phrase or a markdown link, goes
\* on to the next entry of the batch without a publish call, leaves
\* sent_entries as it is and leaves the post unknown to the pre-filter; and
\* the content of a publish call is never a rejectable one.
QualityRejection ==
    [][ /\ ( /\ \/ pc = "content" /\ TooShort(NormalizePost(Current))
                \/ /\ pc = "quality"
                   /\ result.some
                   /\ ContainsLowQualityPhrases(
                          Truncated(result.title, result.description))
             /\ pc' # "idle" )
           => /\ pc' = "head"
              /\ idx' = idx + 1
              /\ skipped_count' = skipped_count + 1
              /\ sent_entries' = sent_entries
              /\ ~IsDuplicate(Current)
        /\ (pc # "send" /\ pc' = "send"
              => /\ ~TooShort(NormalizePost(new_posts'[idx']))
                 /\ (UseAi => ~ContainsLowQualityPhrases(processed_content'))) ]_vars

\* C7: the first entry of the batch was too short and was skipped, and the
\* rewrite of the second entry is about to be rejected
QualityRejectionWitness ==
    /\ pc = "quality"
    /\ idx = 2
    /\ TooShort(NormalizePost(new_posts[1]))
    /\ skipped_count = 1
    /\ sent_entries = << >>
    /\ result.some
    /\ ContainsLowQualityPhrases(Truncated(result.title, result.description))

\* C8: when enhance() has returned null, the content that goes on to the
\* image and publish steps is the original title and description.
FallbackToOriginal ==
    pc = "quality" /\ ~result.some
        => ContentAfterEnhance(NormalizePost(Current), result)
             = Truncated(NormalizePost(Current).title,
                         NormalizePost(Current).description)

PerPostFaultIsolation ==
    [][ PostException
          => /\ skipped_count' = skipped_count + 1
             /\ pc' = "head"
             /\ idx' = idx + 1
             /\ stats_errors' = stats_errors + 1 ]_vars

\* C11: when the fetch phase has returned, every active feed of the list
\* was fetched, whatever became of the other feeds (nothing returned, no
\* entries, an exception), and the entries of every feed that delivered some
\* are in the batch that goes to the processing step.
PerFeedIsolation ==
    pc = "head" =>
        \A i \in 1..Len(outcomes) :
            RSS_ACTIVE[i] =>
                /\ outcomes[i] \in FeedOutcomes
                /\ outcomes[i] = "entries" =>
                       \A e \in Range(FeedEntries(i)) : e \in Range(new_posts)

\* C11: of three active feeds the first raised, the second returned nothing
\* and the entries of the third are in the batch
PerFeedIsolationWitness ==
    /\ pc = "head"
    /\ Len(outcomes) = 3
    /\ \A i \in 1..3 : RSS_ACTIVE[i]
    /\ outcomes[1] = "raise"
    /\ outcomes[2] = "null"
    /\ outcomes[3] = "entries"
    /\ new_posts = FeedEntries(3)
    /\ stats_errors = 1

\* C12: whenever load_state runs on a state file that is empty, truncated or
\* otherwise no JSON, it returns without raising, the state in memory is then
\* a valid empty document with its metadata, and the backup directory holds
\* a copy of the bytes of the bad file.
CrashSafeLoad ==
    [][ file.kind \in {"empty", "truncated"} /\ (StoreStart \/ StoreLoad)
          => /\ ~last'.raised
             /\ ValidateDocument(state')
             /\ state'.sent_entries = << >>
             /\ state'.sent_hashes = << >>
             /\ file \in backups' ]_vars

\* C13: when load_state reads a document in which a key of sent_entries is
\* not 32 to 64 lowercase hex digits, or a key of sent_hashes is not 64 of
\* them, and returns, the whole document is discarded: sent_entries and
\* sent_hashes are empty, the metadata carries a recovery_reason, and no
\* entry of the file counts as sent.
KeyFormatValidation ==
    [][ ( /\ ~last'.raised
          /\ file.kind = "json"
          /\ "sent_entries" \in file.doc.keys
          /\ ~file.doc.legacy
          /\ \/ \E k \in Keys(file.doc.sent_entries) : ~MatchesEntryKey(k)
             \/ \E k \in Keys(file.doc.sent_hashes) : ~MatchesHashKey(k)
          /\ StoreStart \/ StoreLoad )
          => /\ state'.sent_entries = << >>
             /\ state'.sent_hashes = << >>
             /\ state'.recovery_reason
             /\ \A k \in Keys(file.doc.sent_entries) :
                    k \notin Keys(state'.sent_entries) ]_vars

\* C13: a file whose sent_entries holds a digest and a URL as keys was
\* loaded, the load returned, and the state in memory is the recovered one
KeyFormatValidationWitness ==
    /\ last.op = "load"
    /\ ~last.raised
    /\ file.kind = "json"
    /\ ~file.doc.legacy
    /\ Md5(<<"a">>) \in Keys(file.doc.sent_entries)
    /\ UrlKey(<<"b">>) \in Keys(file.doc.sent_entries)
    /\ state = RecoveredState
    /\ file \in backups

\* C14: when load_state reads a document of the current format that lacks a
\* required section and returns, what happens depends on the section.
\* Without sent_entries the file is copied to the backup directory and the
\* state is the fresh empty document with a recovery_reason.  Without
\* sent_hashes, stats or metadata the section is added and the document is
\* loaded: its entries count as sent and there is no recovery.
MissingSections ==
    [][ ( /\ ~last'.raised
          /\ file.kind = "json"
          /\ ~file.doc.legacy
          /\ ~(required_keys \subseteq file.doc.keys)
          /\ \A k \in Keys(file.doc.sent_entries) : MatchesEntryKey(k)
          /\ \A k \in Keys(file.doc.sent_hashes) : MatchesHashKey(k)
          /\ StoreStart \/ StoreLoad )
          => IF "sent_entries" \notin file.doc.keys
             THEN /\ state' = RecoveredState
                  /\ file \in backups'
             ELSE /\ Keys(state'.sent_entries) = Keys(file.doc.sent_entries)
                  /\ Keys(state'.sent_hashes) = Keys(file.doc.sent_hashes)
                  /\ required_keys \subseteq state'.keys
                  /\ ~state'.recovery_reason
                  /\ backups' = backups ]_vars

\* C14: a file without the section sent_hashes was loaded and its two
\* entries are in memory, with no recovery
MissingSectionsWitness ==
    /\ last.op = "load"
    /\ ~last.raised
    /\ file.kind = "json"
    /\ file.doc.keys = required_keys \ {"sent_hashes"}
    /\ Keys(state.sent_entries) = {Md5(<<"a">>), Md5(<<"b">>)}
    /\ Keys(state.sent_entries) = Keys(file.doc.sent_entries)
    /\ ~state.recovery_reason
    /\ backups = {}

\* C14 as it stands: a document of the current format that lacks any one of
\* the four required sections is backed up and replaced by the fresh empty
\* document with a recovery_reason
MissingSectionsAllRejected ==
    [][ ( /\ ~last'.raised
          /\ file.kind = "json"
          /\ ~file.doc.legacy
          /\ ~(required_keys \subseteq file.doc.keys)
          /\ StoreStart \/ StoreLoad )
          => /\ state' = RecoveredState
             /\ file \in backups' ]_vars

\* C15: a load of a document of the old format (sent_entries a list of
\* records with post_id and pub_date) takes the conversion and, when it
\* returns, exactly the identities of the records are in sent_entries; a
\* save of a converted state writes a document of the current format with
\* those entries; and a load of that document yields the same entries
\* without taking the conversion (the document holding the converted
\* records and what add_sent_entry recorded, no identifier that add_entry
\* took as it came).
LegacyRoundTrip ==
    [][ /\ ( /\ ~last'.raised
             /\ file.kind = "json"
             /\ file.doc.legacy
             /\ StoreStart \/ StoreLoad )
             => /\ last'.legacy
                /\ Keys(state'.sent_entries)
                     = Keys(file.doc.sent_entries) \ {NoPostId}
        /\ ( /\ file' # file
             /\ state.converted_from_legacy
             /\ SaveReplace )
             => /\ file'.kind = "json"
                /\ ~file'.doc.legacy
                /\ Keys(file'.doc.sent_entries) = Keys(state.sent_entries)
        /\ ( /\ ~last'.raised
             /\ file.kind = "json"
             /\ ~file.doc.legacy
             /\ file.doc.converted_from_legacy
             /\ Keys(file.doc.sent_entries) \cap (EntryIds \ RecordedKeys) = {}
             /\ StoreStart \/ StoreLoad )
             => /\ ~last'.legacy
                /\ Keys(state'.sent_entries) = Keys(file.doc.sent_entries) ]_vars

\* C15: the two records of a file of the old format were converted and saved,
\* the file of the current format was loaded again without conversion, and
\* the two identities are in memory
LegacyRoundTripWitness ==
    /\ last.op = "load"
    /\ ~last.raised
    /\ ~last.legacy
    /\ file.kind = "json"
    /\ ~file.doc.legacy
    /\ file.doc.converted_from_legacy
    /\ state.converted_from_legacy
    /\ Keys(state.sent_entries) = {Md5(<<"a">>), Md5(<<"b">>)}
    /\ clock = Len(OldStamps)

\* C16: the canonical state file changes in one step only, the replace at the
\* end of save_state, which happens after the temporary file was read back
\* and parsed and puts the complete document of the state in memory in its
\* place; every other step, a failure of save_state and a kill of the
\* process at any point leave the canonical file as it was.
AtomicSave ==
    [][ file' # file
          => /\ store_pc = "replace"
             /\ Verifies(tmp_file)
             /\ file' = tmp_file
             /\ file' = Json(state)
             /\ store_pc' = "idle" ]_vars

\* C16: a save failed after it had written part of the temporary file; the
\* canonical file is the complete document of before, which lacks what was
\* recorded in memory since
AtomicSaveWitness ==
    /\ last.op = "save"
    /\ store_pc = "idle"
    /\ tmp_file.kind = "truncated"
    /\ tmp_file.doc = state
    /\ file.kind = "json"
    /\ Md5(<<"c">>) \in Keys(state.sent_entries)
    /\ Md5(<<"c">>) \notin Keys(file.doc.sent_entries)
    /\ ValidateDocument(file.doc)

\* C17: whichever step of save_state fails (opening or writing the temporary
\* file, the verification, the replace), save_state returns without an
\* exception and sent_entries and sent_hashes in memory are what they were.
SaveFailureNonFatal ==
    [][ ( /\ SaveOpen \/ SaveDump \/ SaveVerify \/ SaveReplace
          /\ store_pc' = "idle"
          /\ file' = file )
          => /\ last'.op = "save"
             /\ ~last'.raised
             /\ state'.sent_entries = state.sent_entries
             /\ state'.sent_hashes = state.sent_hashes ]_vars

\* C18: a call of cleanup_old_entries leaves at most max_entries entries in
\* sent_entries, and when it removes entries the ones that stay are the
\* last max_entries of the insertion order, in that order.
CleanupBound ==
    [][ StoreCleanup
          => /\ Len(state'.sent_entries) <= max_entries
             /\ Len(state.sent_entries) > max_entries
                  => state'.sent_entries
                       = SubSeq(state.sent_entries,
                                Len(state.sent_entries) - max_entries + 1,
                                Len(state.sent_entries))
             /\ Len(state.sent_entries) <= max_entries
                  => state'.sent_entries = state.sent_entries ]_vars

\* C18: a cleanup removed the entries of the file and kept the identity that
\* was recorded last
CleanupBoundWitness ==
    /\ last.op = "cleanup"
    /\ Len(state.sent_entries) = max_entries
    /\ state.sent_entries[max_entries].key = Md5(<<"c">>)
    /\ Md5(<<"b">>) \notin Keys(state.sent_entries)
    /\ file.kind = "json"
    /\ Md5(<<"b">>) \in Keys(file.doc.sent_entries)

\* C19: the identity of a post is a function of its link and its title: a
\* derivation that is repeated gives what it gave, whatever was recorded in
\* between and in whichever order the posts are taken; two posts with the
\* same link and the same title have the same identity whatever their
\* descriptions and dates; two posts with the same link and different
\* titles have different identities.
IdentityStability ==
    [][ /\ id_a # Underived => id_a' = id_a
        /\ id_b # Underived => id_b' = id_b
        /\ (id_a' # Underived /\ id_b' # Underived /\ post_a.link = post_b.link)
             => (id_a' = id_b') <=> (post_a.title = post_b.title) ]_vars

\* C19: two posts with the same link, different titles, different
\* descriptions and dates have different identities, both recorded
IdentityStabilityWitness ==
    /\ post_a.link = post_b.link
    /\ post_a.title # post_b.title
    /\ post_a.description # post_b.description
    /\ post_a.pub_date # post_b.pub_date
    /\ id_a # Underived
    /\ id_b # Underived
    /\ id_a # id_b
    /\ Len(sent_entries) = 2

\* C20: when two posts of one cycle reach the publish call, the second call
\* is made at least the minimum delay after the first, whether the first
\* call returned true or false.
RatePacing ==
    Len(call_times) >= 2
        => call_times[2] - call_times[1] >= MIN_DELAY_BETWEEN_POSTS


\* C21 (as stated): whenever stop() has cancelled the tasks and has returned,
\* every cancelled task has ended and the final save_state has been made,
\* also when releasing a resource in _safe_shutdown raised.
ShutdownSequence ==
    (stopped.returned \in {"True", "False"} /\ stopped.cancelled # {}) =>
        stopped.saved


\* C22 (as stated): under any interleaving of start, stop, pause and resume
\* with the running loop at most one pipeline loop runs cycles, no two posts
\* are in processing at the same time, and sent_entries and sent_hashes are
\* changed by the pipeline task only.
SingleWorkerOnlyWriter ==
    /\ alive["rss_task"] <= 1
    /\ PostsInProcessing <= 1
    /\ writers.sent_entries \subseteq {"rss_task"}
    /\ writers.sent_hashes \subseteq {"rss_task"}

\* C22 (amended): at most one pipeline loop runs cycles and at most one post
\* is in processing; sent_hashes is changed by the pipeline task only, and
\* sent_entries by the pipeline task and by the clear-history handler.
SingleWorker ==
    /\ alive["rss_task"] <= 1
    /\ PostsInProcessing <= 1
    /\ writers.sent_entries \subseteq {"rss_task", "handle_clear_history"}
    /\ writers.sent_hashes \subseteq {"rss_task"}

\* a resume came while stop() still waited for the cancelled loop: the new
\* loop is at a post, the old one has not ended, both writers have written
SingleWorkerWitness ==
    /\ stop_pc = "gather"
    /\ unwinding["rss_task"] = 1
    /\ alive["rss_task"] = 1
    /\ rss_pc = "post"
    /\ writers.sent_entries = {"rss_task", "handle_clear_history"}
    /\ writers.sent_hashes = {"rss_task"}


\* C23 (as stated): the feeds a cycle fetches are those that were in the
\* list and active when its fetch phase began, each once and none skipped,
\* whatever the administrator adds, removes or toggles during the cycle.
ConfigAtCycleStart ==
    fetch_pc = "done" => fetched = at_begin

\* C24: a failed fetch leaves the active flag of every feed as it was, for
\* any number of failures counted; the flag of a feed that stays in the
\* list changes only in a step of the administrator's toggle.
NeverAutoDisabled ==
    [][/\ (fetch_pc = "await" /\ fetch_pc' = "loop") => RSS_ACTIVE' = RSS_ACTIVE
       /\ \A u \in Urls :
            ((\E j \in 1..Len(RSS_URLS) : RSS_URLS[j] = u)
             /\ (\E j \in 1..Len(RSS_URLS') : RSS_URLS'[j] = u)
             /\ IsActive(u) # IsActive(u)')
            => ToggleFeed]_vars

\* a feed has failed MaxFailures times and is still active
NeverAutoDisabledWitness ==
    \E u \in Urls : feed_errors[u] = MaxFailures /\ IsActive(u) /\ fetch_pc = "done"


\* the place of src in tried, 0 when it was not turned to
TriedAt(src) ==
    IF \E k \in 1..Len(tried) : tried[k] = src
    THEN CHOOSE k \in 1..Len(tried) : tried[k] = src
    ELSE 0

\* C25: in mode 'original' the image given to the publish call comes from
\* the image_url of the feed entry or from the scraped page, generation is
\* never turned to, and a post for which no image came back goes to the
\* publish call without image.
OriginalMode ==
    image_cfg.IMAGE_SOURCE = "original" =>
        /\ TriedAt("generation") = 0
        /\ published \in {"no", "text", "feed_download", "page_download"}
        /\ image_pc # "skipped"
        /\ (image_pc = "send" /\ resolved = "nothing") => published = "text"

\* the entry had no image_url, the page gave none: published without image
OriginalModeWitness ==
    /\ image_cfg.IMAGE_SOURCE = "original"
    /\ image_cfg.IMAGE_FALLBACK /\ image_cfg.ENABLE_IMAGE_GENERATION
    /\ tried = <<"page_scrape">>
    /\ image_pc = "send"
    /\ published = "text"

\* C26: in mode 'template' the sources are turned to in the order feed
\* image_url, image of the description, generation; generation is turned to
\* only when generation is enabled and each earlier source the post has was
\* tried and gave no accepted image; a generated file is the one given to
\* the publish call.
TemplatePrecedence ==
    image_cfg.IMAGE_SOURCE = "template" =>
        /\ \A j, k \in 1..Len(tried) :
            (j < k) => \/ tried[j] = "feed_download"
                       \/ tried[k] = "generation"
                       \/ (tried[j] = "html_search" /\ tried[k] = "html_download")
        /\ TriedAt("generation") # 0 =>
            /\ image_cfg.IMAGE_FALLBACK /\ image_cfg.ENABLE_IMAGE_GENERATION
            /\ image_post.image_url => TriedAt("feed_download") # 0
            /\ image_post.description => TriedAt("html_search") # 0
            /\ resolved \in {"nothing", "generation"}
        /\ TriedAt("html_search") # 0 =>
            (image_post.image_url => TriedAt("feed_download") # 0)
        /\ resolved = "generation" => (image_pc = "send" /\ published = "generation")
        /\ TriedAt("page_scrape") = 0

\* no image_url, no image in the description, generation enabled: the
\* generated file goes to the publish call
TemplatePrecedenceWitness ==
    /\ image_cfg.IMAGE_SOURCE = "template"
    /\ ~image_post.image_url
    /\ tried = <<"html_search", "generation">>
    /\ image_pc = "send"
    /\ published = "generation"

\* every source the mode and the post have was turned to
AllSourcesTried ==
    IF image_cfg.IMAGE_SOURCE = "original"
    THEN /\ image_post.image_url => TriedAt("feed_download") # 0
         /\ image_post.link => TriedAt("page_scrape") # 0
    ELSE /\ image_post.image_url => TriedAt("feed_download") # 0
         /\ image_post.description => TriedAt("html_search") # 0
         /\ (image_cfg.IMAGE_FALLBACK /\ image_cfg.ENABLE_IMAGE_GENERATION)
                => TriedAt("generation") # 0

\* C27 (as stated): in every mode that downloads, a download that fails or
\* is not accepted makes the resolver turn to the next source of the mode,
\* so resolution ends without image only when every source was turned to,
\* and the post always goes to the publish call.
ValidationFallThrough ==
    image_cfg.IMAGE_SOURCE # "none" =>
        /\ image_pc # "skipped"
        /\ (image_pc = "send" /\ published = "text") => AllSourcesTried

\* C27 (amended): in mode 'template' a failed download makes the resolver
\* turn to the next source; in the modes 'original' and 'template' the post
\* always goes to the publish call, with an image or without.
TemplateFallThrough ==
    /\ image_cfg.IMAGE_SOURCE \in {"original", "template"} => image_pc # "skipped"
    /\ image_cfg.IMAGE_SOURCE = "template" =>
        ((image_pc = "send" /\ published = "text") => AllSourcesTried)

\* the download of the feed's image failed, the one of the description's
\* image was accepted and is published
TemplateFallThroughWitness ==
    /\ image_cfg.IMAGE_SOURCE = "template"
    /\ tried = <<"feed_download", "html_search", "html_download">>
    /\ image_pc = "send"
    /\ published = "html_download"


\* C28 (as stated): once the errors of the transform backend have reached
\* the threshold, the backend is reported unavailable and enhance() is not
\* called again (until the cooldown has passed).
BackendAutoDisable ==
    BackendErrors(enhance_log) >= YAGPT_ERROR_THRESHOLD =>
        (~IsAvailable /\ backend_pc # "enhance")


\* C29 (as stated): a call of cleanup_old_entries on a store with more than
\* max_entries entries does not raise, removes from sent_hashes exactly the
\* hashes that were recorded with the removed entries (same time stamp), and
\* goes on to save_state.
CleanupPrunesHashes ==
    [][ (Len(state.sent_entries) > max_entries /\ StoreCleanup)
          => /\ store_pc' = "open"
             /\ \A i \in 1..Len(state.sent_hashes) :
                  (state.sent_hashes[i].key \in Keys(state'.sent_hashes))
                    <=> ~(\E j \in 1..(Len(state.sent_entries) - max_entries) :
                            state.sent_entries[j].value
                              = state.sent_hashes[i].value) ]_vars


\* C30 (as stated): after a load that converted a file of the old format,
\* every record of the file that has a post_id is in sent_entries with its
\* pub_date, and every other top-level field of the file is a field of the
\* converted document.
LegacyDataPreserved ==
    [][ ( /\ ~last'.raised
          /\ file.kind = "json"
          /\ file.doc.legacy
          /\ "sent_entries" \in file.doc.keys
          /\ StoreStart \/ StoreLoad )
          => /\ \A i \in 1..Len(file.doc.sent_entries) :
                  file.doc.sent_entries[i].key # NoPostId
                    => \E j \in 1..Len(state'.sent_entries) :
                          state'.sent_entries[j] = file.doc.sent_entries[i]
             /\ file.doc.keys \subseteq state'.keys ]_vars

\* C30 (amended): after such a load, when the converted document was
\* accepted, every post_id of the file is in sent_entries with the pub_date
\* of the last record that has it, and of the other top-level fields of the
\* file stats and the four fields of the list of _convert_legacy_state are
\* fields of the converted document, the others are not.
LegacyKnownDataPreserved ==
    [][ ( /\ ~last'.raised
          /\ file.kind = "json"
          /\ file.doc.legacy
          /\ "sent_entries" \in file.doc.keys
          /\ ~state'.recovery_reason
          /\ StoreStart \/ StoreLoad )
          => /\ last'.legacy
             /\ \A i \in 1..Len(file.doc.sent_entries) :
                  ( /\ file.doc.sent_entries[i].key # NoPostId
                    /\ \A k \in (i + 1)..Len(file.doc.sent_entries) :
                          file.doc.sent_entries[k].key
                            # file.doc.sent_entries[i].key )
                    => \E j \in 1..Len(state'.sent_entries) :
                          state'.sent_entries[j] = file.doc.sent_entries[i]
             /\ state'.keys
                  = required_keys \cup (file.doc.keys \cap CarriedKeys) ]_vars

\* the file with yagpt_cache, last_check and one post_id in two records was
\* converted: the cache is there, last_check is not, the later date stands
LegacyKnownDataPreservedWitness ==
    /\ last.op = "load"
    /\ last.legacy
    /\ "yagpt_cache" \in state.keys
    /\ "last_check" \notin state.keys
    /\ state.sent_entries = <<Item(Md5(<<"a">>), 2)>>

\* C31 (as stated): a call of fetch_feed makes at most max_retries request
\* attempts and ends with content or null; a transient failure of the
\* network (connection error, timeout) on an attempt that is not the last
\* is followed by a backoff and another attempt, and the last attempt
\* failing yields null.
BoundedFetchRetry ==
    [][/\ attempt' <= max_retries
       /\ retry_pc' = "done" => fetch_ret' \in {"content", "null"}
       /\ (/\ retry_pc = "request"
           /\ retry_pc' # "request"
           /\ attempt < max_retries
           /\ attempt_log'[Len(attempt_log')] \in {"connection", "timeout"})
          => retry_pc' = "backoff"]_vars

\* C32: an exception raised inside a cycle (fetch phase, processing phase,
\* update of the statistics, periodic save) does not end the loop: the task
\* goes to the sleep of the handler and from there to the head of the loop;
\* the task of the loop ends only when is_running is false or the task was
\* cancelled.
LoopStopsOnlyOnShutdown ==
    [][/\ (LoopAlive /\ cycle_pc' = "ended") =>
            (~is_running \/ cancel_requested)
       /\ (cycle_errors' > cycle_errors /\ last_cycle' = "error") =>
            cycle_pc' = "error_sleep"
       /\ (cycle_pc = "error_sleep" /\ cycle_pc' # "error_sleep") =>
            (cycle_pc' = "head" \/ cancel_requested)]_vars

\* a cycle raised, the handler slept, and the loop is in another cycle
LoopStopsOnlyOnShutdownWitness ==
    /\ cycle_errors > 0
    /\ cycle_pc = "process"
    /\ last_cycle = "running"
    /\ is_running
    /\ ~cancel_requested

\* C33: while the loop keeps running, a save that is due (more than 300 s
\* since the last periodic save) is followed by a cycle that writes the
\* state, whether or not posts were sent and also when cycles in between
\* ended with an error.
PeriodicPersistence ==
    save_due ~> ((~save_due /\ last_cycle = "saved") \/ ~LoopAlive)

\* the save became due, a cycle raised, and a later cycle saved
PeriodicPersistenceWitness ==
    /\ cycle_errors > 0
    /\ last_cycle = "saved"
    /\ cycle_pc = "sleep"
    /\ ~save_due

\* C34 (as stated): the generation jobs in flight are never more than
\* MAX_CONCURRENT_IMAGE_TASKS, and every permit acquired is released to the
\* semaphore it came from when the job returns, fails or is cancelled, so
\* that the semaphore has its initial number of permits whenever the
\* controller runs and no job is in flight.
GenerationPermitBound ==
    /\ InFlight <= sem_initial
    /\ (is_running /\ job_pc = "none") => sem_value = sem_initial

\* C35 (as stated): for every text and every max_length, the text that
\* _truncate_text returns, and so the title and the description handed to
\* the publish step, is at most max_length characters long.
LengthLimits ==
    trunc_pc = "returned" => Len(trunc_out) <= trunc_max

\* C36: the clear-history command leaves is_entry_sent false for every
\* identity, and from then on a post whose identity has not been recorded
\* again is never counted as a duplicate by the pre-filter, whatever
\* sent_hashes still holds: it enters processing like a new post.
ClearHistoryResets ==
    [][/\ ClearHistory =>
            \A p \in Posts : PostId(p) \notin Range(sent_entries')
       /\ (/\ cleared
           /\ pc = "head"
           /\ idx <= Len(new_posts)
           /\ ~IsEntrySent(PostId(Current))
           /\ IsHashSent(StateContentHash(NormalizePost(Current))))
          => duplicate_count' <= duplicate_count]_vars

\* a post that an earlier run had sent and recorded has been published
\* again after the history was cleared and is about to be recorded, its
\* content hash still in sent_hashes
ClearHistoryResetsWitness ==
    /\ cleared
    /\ pc = "record"
    /\ PostId(Current) \in loaded
    /\ success
    /\ ~IsEntrySent(PostId(Current))
    /\ IsHashSent(StateContentHash(NormalizePost(Current)))

\* C37 (as stated): when save_state has written the state of the manager
\* after any store operations, a load of that file does not take the
\* recovery path, and the keys of sent_entries and of sent_hashes after the
\* load are those before it.
SavedStateLoadable ==
    [][(/\ store_pc = "idle"
        /\ last = Ended("save", FALSE, FALSE)
        /\ file = Json(state)
        /\ last'.op = "load")
       => /\ ~last'.raised
          /\ state'.recovery_reason = state.recovery_reason
          /\ Keys(state'.sent_entries) = Keys(state.sent_entries)
          /\ Keys(state'.sent_hashes) = Keys(state.sent_hashes)]_vars

\* C38: for every post that reaches processing (a dict with a link, or a
\* bare link string) the identity the pre-filter looked up, derived from the
\* quick-normalized post, is the identity stored in sent_entries when the
\* post is published, derived from the normalized post; so a post that
\* passes the pre-filter is not recorded, and a recorded post is caught.
FilterKeyIsRecordKey ==
    /\ filter_outcome = "published" => filter_key = record_key
    /\ filter_pc = "process" =>
          ~IsEntrySent(GeneratePostId(Normalized(cand)))

\* a bare link string was published and recorded, came again and was
\* counted as a duplicate
FilterKeyIsRecordKeyWitness ==
    /\ filter_outcome = "duplicate"
    /\ cand.kind = "str"
    /\ filter_key = record_key

\* C39: in every state where start() has returned true and no stop() has
\* been requested since, the HTTP session is open and the image executor has
\* not been shut down, also when that start() ran while an earlier stop()
\* was still waiting for its cancelled tasks.
StartStopInterleaving ==
    started_ok => (session = "open" /\ ~executor_down)

====
